---- MODULE Spec2Model ----
(***************************************************************************)
(* State-machine model of the client-side coordination code of the        *)
(* RetailAIChatbot frontend:                                               *)
(*   - POSidebar      (src/unnamed/part_001): WebSocket channel with       *)
(*                    reconnect, purchase-order lists, status updates;     *)
(*   - ChatInterface  (src/frontend/components/chat-interface.tsx):        *)
(*                    message list, conversation loading, /chat/query.     *)
(*   - DashboardPage, LoginPage (src/frontend/app/login/page.tsx):         *)
(*                    session, project list, embedding-status polling;     *)
(*   - EmbeddingStatusBanner (chat-interface.tsx): its own status poll.    *)
(*                                                                         *)
(* The components are React function components.  A handler created in a   *)
(* render closes over the props and state of THAT render; the model keeps  *)
(* the captured values explicitly with every socket, timer and request     *)
(* that outlives the render it was created in.                             *)
(***************************************************************************)
EXTENDS Integers, Sequences, FiniteSets, Bags, TLC

(***************************************************************************)
(* Bounds of the model                                                     *)
(***************************************************************************)
\* live sockets plus pending reconnect timers the sidebar may own at once
MaxChannels == 2
\* cap of the connectionRetries state counter
RetryCap == 7
\* longest purchase-order list a fetch returns
MaxPOs == 2
\* PO fetches in flight at once
MaxFetches == 2
\* a submit is accepted by the model while the list has room for the user
\* Message and the AI Message that answers it within MaxMsgs entries
MaxMsgs == 3
\* message-history loads in flight at once
MaxLoads == 1
\* pending workflow_complete refetch timers at once
MaxRefetch == 1
\* REST calls of the login page and the dashboard in flight at once
MaxRequests == 2
\* records in a stored conversation history
MaxHistory == 2
\* pending delayed submits of clicked suggestions
MaxClicks == 2
\* documents generateNewDocument adds to the initial ones
MaxGenerated == 2

(***************************************************************************)
(* Program constants                                                       *)
(***************************************************************************)
\* ws.onclose: `connectionRetries < 5`
MaxRetries == 5
\* ws.onclose: `Math.min(1000 * Math.pow(2, connectionRetries), 30000)`
BaseDelay == 1000
MaxDelay == 30000

\* the calendar: today or another day
Dates == {"today", "d1"}
IsToday(d) == d = "today"

NoInterval == [project |-> "none", date |-> "none", isConnected |-> FALSE]
NeverRan == [project |-> "unset", date |-> "unset", isConnected |-> FALSE]

NoProject == "none"
Projects == {"A", "B"}
ProjectOrNone == Projects \cup {NoProject}

\* references to WebSocket objects: null, a live socket, or an object whose
\* close event has already been handled (close() on it does nothing)
Null == 0
Dead == -1
SocketIds == 1..MaxChannels

VARIABLES
  \* ---- POSidebar ----
  sidebar,            \* "new" | "mounted" | "unmounted"
  selectedProject,    \* prop selectedProject (its id) as seen by POSidebar
  access_token,       \* localStorage holds an access_token
  wsConnection,       \* useState: WebSocket | null
  isConnected,        \* useState
  connectionRetries,  \* useState
  effectWs,           \* wsConnection captured by the WebSocket effect that last ran
  sockets,            \* WebSocket objects: id -> [project, retries, state]
  reconnectTimers,    \* bag of pending setTimeout closures [project, retries, date, delay]
  selectedDate,       \* useState: the date picked in the calendar
  todayPOs,           \* useState: PurchaseOrder[]
  selectedDatePOs,    \* useState: PurchaseOrder[]
  todayFilter,        \* useState: FilterType
  selectedDateFilter, \* useState: FilterType
  isLoading,          \* useState
  workflowStatus,     \* useState: string | null
  lastWorkflowError,  \* useState: {date, error} | null
  wsLog,              \* the payload of the last ws.onmessage event (console.log)
  fetches,            \* bag of GET /po/project/{id} calls in flight (closures)
  refetchTimers,      \* bag of pending setTimeout closures of workflow_complete
  pollDeps,           \* deps of the polling effect when it last ran
  pollInterval,       \* closure of the active setInterval callback, or NoInterval
  pollLog,            \* history: what the last tick of the interval did
  \* ---- ChatInterface ----
  chat,                   \* "new" | "mounted"
  chatProject,            \* prop selectedProject (its id) as seen by ChatInterface
  currentConversationId,  \* prop
  isEmbeddingProcessing,  \* prop
  messages,               \* useState: Message[]
  message,                \* useState: the input field
  isTyping,               \* useState
  error,                  \* useState: string | null
  queries,                \* bag of /chat/query calls in flight (closures)
  loads,                  \* bag of message-history loads in flight (closures)
  submitTimers,           \* bag of pending setTimeout closures of the click handlers
  \* ---- DownloadManagement ----
  downloadProject,        \* prop selectedProject (its id) as seen by DownloadManagement
  documents,              \* useState: GeneratedDocument[]
  generationTimers,       \* ids captured by the pending 3 s generation timers
  clock,                  \* Date.now()
  downloadLog,            \* history: ids removed by handleDelete, and ids whose
                          \* generation timer fired after their removal
  \* ---- LoginPage, DashboardPage, EmbeddingStatusBanner ----
  route,                  \* the page the router shows: "/login" | "/dashboard"
  token_type,             \* localStorage holds a token_type
  lastSubmit,             \* how the last submit of each form and the last logout ended
  dashboard,              \* "new" | "mounted"
  user,                   \* useState: UserData | null (TRUE: loaded)
  projects,               \* useState: Project[] (ids)
  dashSelectedProject,    \* useState selectedProject of DashboardPage (its id)
  deleteDialog,           \* useState: {project, isDeleting}
  dashEmbeddingProcessing,\* useState isEmbeddingProcessing of DashboardPage
  embeddingStatus,        \* useState: EmbeddingStatus | null
  bannerStatus,           \* EmbeddingStatusBanner useState status
  bannerIsProcessing,     \* EmbeddingStatusBanner useState isProcessing
  bannerError,            \* EmbeddingStatusBanner useState error
  intervals,              \* active setInterval timers [owner, project]
  requests,               \* bag of REST calls in flight (closures)
  serverMessages,         \* data.messages the backend holds for a conversation
  lastLoad                \* history: the last response, when it held no messages

wsVars == <<sidebar, selectedProject, access_token, wsConnection, isConnected,
            connectionRetries, effectWs, sockets, reconnectTimers>>

poVars == <<selectedDate, todayPOs, selectedDatePOs, todayFilter,
            selectedDateFilter, isLoading, workflowStatus, lastWorkflowError,
            wsLog, fetches, refetchTimers, pollDeps, pollInterval, pollLog>>

loadVars == <<serverMessages, lastLoad>>

downloadVars == <<downloadProject, documents, generationTimers, clock, downloadLog>>

chatVars == <<chat, chatProject, currentConversationId, isEmbeddingProcessing,
              messages, message, isTyping, error, queries, loads, submitTimers,
              loadVars, downloadVars>>

authVars == <<route, token_type, lastSubmit>>

projectVars == <<dashboard, user, projects, dashSelectedProject, deleteDialog>>

embeddingVars == <<dashEmbeddingProcessing, embeddingStatus, bannerStatus,
                   bannerIsProcessing, bannerError, intervals>>

dashVars == <<authVars, projectVars, embeddingVars, requests>>

\* the state of POSidebar's channel apart from the stored access_token
wsState == <<sidebar, selectedProject, wsConnection, isConnected,
             connectionRetries, effectWs, sockets, reconnectTimers>>

vars == <<wsVars, poVars, chatVars, dashVars>>

----------------------------------------------------------------------------
(***************************************************************************)
(* POSidebar: WebSocket channel                                            *)
(***************************************************************************)

Live(socks) == DOMAIN socks

Channels == Cardinality(Live(sockets)) + BagCardinality(reconnectTimers)

FreeId(socks) ==
  CHOOSE i \in SocketIds :
    /\ i \notin DOMAIN socks
    /\ \A j \in SocketIds : j < i => j \in DOMAIN socks

\* WebSocket.close(): a connecting or open socket starts closing; the close
\* event is delivered later.  null / already closed: nothing happens.
CloseSocket(socks, ref) ==
  IF ref \in DOMAIN socks /\ socks[ref].state \in {"connecting", "open"}
  THEN [socks EXCEPT ![ref].state = "closing"]
  ELSE socks

\* connectWebSocket of the render with selectedProject = p,
\* connectionRetries = c and selectedDate = d: the handlers of the new socket
\* close over p, c and d
ConnectWebSocket(socks, p, c, d) ==
  IF p = NoProject THEN socks
  ELSE IF ~access_token THEN socks
  ELSE LET i == FreeId(socks)
       IN  [j \in DOMAIN socks \cup {i} |->
              IF j = i THEN [project |-> p, retries |-> c, date |-> d,
                            state |-> "connecting"]
              ELSE socks[j]]

\* the body of the WebSocket effect, run in the render with project p
\* (state values ws, conn are those of that render)
RunWsEffect(socks, p) ==
  IF p = NoProject
  THEN /\ sockets' = CloseSocket(socks, wsConnection)
       /\ wsConnection' = IF wsConnection # Null THEN Null ELSE wsConnection
       /\ isConnected' = IF wsConnection # Null THEN FALSE ELSE isConnected
  ELSE /\ sockets' = ConnectWebSocket(socks, p, connectionRetries, selectedDate)
       /\ UNCHANGED <<wsConnection, isConnected>>

\* cleanup returned by the effect run for project p: closes the wsConnection
\* that the effect's render saw
WsEffectCleanup(socks, p) ==
  IF p = NoProject THEN socks ELSE CloseSocket(socks, effectWs)

\* first render with prop selectedProject = p, and first run of the effect
Mount(p) ==
  /\ sidebar = "new"
  /\ sidebar' = "mounted"
  /\ selectedProject' = p
  /\ RunWsEffect(sockets, p)
  /\ effectWs' = wsConnection
  /\ UNCHANGED <<access_token, connectionRetries, reconnectTimers>>
  /\ UNCHANGED <<poVars, chatVars, dashVars>>

\* the parent passes another project (or none): cleanup of the previous
\* effect, then the effect of the new render
SelectProject(p) ==
  /\ sidebar = "mounted"
  /\ p # selectedProject
  /\ p # NoProject => Channels < MaxChannels
  /\ selectedProject' = p
  /\ RunWsEffect(WsEffectCleanup(sockets, selectedProject), p)
  /\ effectWs' = wsConnection
  /\ UNCHANGED <<sidebar, access_token, connectionRetries, reconnectTimers>>
  /\ UNCHANGED <<poVars, chatVars, dashVars>>

\* unmount: the cleanups of the WebSocket effect and of the polling effect
Unmount ==
  /\ sidebar = "mounted"
  /\ sidebar' = "unmounted"
  /\ sockets' = WsEffectCleanup(sockets, selectedProject)
  /\ pollInterval' = NoInterval
  /\ UNCHANGED <<selectedProject, access_token, wsConnection, isConnected,
                 connectionRetries, effectWs, reconnectTimers>>
  /\ UNCHANGED <<selectedDate, todayPOs, selectedDatePOs, todayFilter,
                 selectedDateFilter, isLoading, workflowStatus,
                 lastWorkflowError, wsLog, fetches, refetchTimers, pollDeps>>
  /\ UNCHANGED <<pollLog, chatVars, dashVars>>

\* ws.onopen
WsOpen(i) ==
  /\ i \in DOMAIN sockets
  /\ sockets[i].state = "connecting"
  /\ sockets' = [sockets EXCEPT ![i].state = "open"]
  /\ IF sidebar = "mounted"
     THEN /\ isConnected' = TRUE
          /\ wsConnection' = i
          /\ connectionRetries' = 0
     ELSE UNCHANGED <<isConnected, wsConnection, connectionRetries>>
  /\ UNCHANGED <<sidebar, selectedProject, access_token, effectWs, reconnectTimers>>
  /\ UNCHANGED <<poVars, chatVars, dashVars>>

\* does the onclose handler of a socket created with (p, c) schedule a reconnect
SchedulesReconnect(p, c) == p # NoProject /\ c < MaxRetries

\* the delay ws.onclose computes from the connectionRetries c it closes over
BackoffDelay(c) ==
  IF BaseDelay * 2^c < MaxDelay THEN BaseDelay * 2^c ELSE MaxDelay

\* a reference after the close event of socket i has been handled
AfterClose(ref, i) == IF ref = i THEN Dead ELSE ref

\* ws.onclose: the connection failed, was dropped or was closed
WsClose(i) ==
  /\ i \in DOMAIN sockets
  /\ sockets' = [j \in DOMAIN sockets \ {i} |-> sockets[j]]
  /\ IF sidebar = "mounted"
     THEN /\ isConnected' = FALSE
          /\ wsConnection' = Null
     ELSE /\ isConnected' = isConnected
          /\ wsConnection' = AfterClose(wsConnection, i)
  /\ effectWs' = AfterClose(effectWs, i)
  /\ reconnectTimers' =
       IF SchedulesReconnect(sockets[i].project, sockets[i].retries)
       THEN reconnectTimers (+) SetToBag({[project |-> sockets[i].project,
                                           retries |-> sockets[i].retries,
                                           date |-> sockets[i].date,
                                           delay |->
                                             BackoffDelay(sockets[i].retries)]})
       ELSE reconnectTimers
  /\ UNCHANGED <<sidebar, selectedProject, access_token, connectionRetries>>
  /\ UNCHANGED <<poVars, chatVars, dashVars>>

\* the setTimeout callback of ws.onclose
ReconnectTimer(t) ==
  /\ BagIn(t, reconnectTimers)
  /\ connectionRetries < RetryCap
  /\ reconnectTimers' = reconnectTimers (-) SetToBag({t})
  /\ connectionRetries' = IF sidebar = "mounted" THEN connectionRetries + 1
                          ELSE connectionRetries
  /\ sockets' = ConnectWebSocket(sockets, t.project, t.retries, t.date)
  /\ UNCHANGED <<sidebar, selectedProject, access_token, wsConnection,
                 isConnected, effectWs>>
  /\ UNCHANGED <<poVars, chatVars, dashVars>>

TimerClosures ==
  {[project |-> p, retries |-> c, date |-> d, delay |-> BackoffDelay(c)] :
     p \in Projects, c \in 0..RetryCap, d \in Dates}

----------------------------------------------------------------------------
(***************************************************************************)
(* JSON values as JavaScript sees them, and JSON text                      *)
(***************************************************************************)
\* a value: undefined, null, a string, an array of strings, an object, or
\* (for a field of a server record) a string that holds JSON text
JUndefined == [t |-> "undefined", v |-> ""]
JNull == [t |-> "null", v |-> ""]
JStr(s) == [t |-> "str", v |-> s]
JArr(items) == [t |-> "arr", v |-> items]
JObj(f) == [t |-> "obj", v |-> f]
JText(tokens) == [t |-> "text", v |-> tokens]
EmptyObject == JObj(<<>>)
EmptyArray == JArr(<<>>)

\* truthiness; `a || b`; property access `x.k` / `x?.k`; `!!x?.length`
Truthy(x) == x.t \notin {"undefined", "null"} /\ ~(x.t = "text" /\ x.v = <<>>)
Or(a, b) == IF Truthy(a) THEN a ELSE b
Get(x, k) == IF x.t = "obj" /\ k \in DOMAIN x.v THEN x.v[k] ELSE JUndefined
HasLength(x) ==
  \/ x.t = "arr" /\ x.v # <<>>
  \/ x.t = "str"
  \/ x.t = "text" /\ x.v # <<>>
TypeofString(x) == x.t \in {"str", "text"}
TypeofObject(x) == x.t \in {"obj", "arr", "null"}

\* JSON text is a sequence of tokens
Tok(kind, v) == [k |-> kind, v |-> v]
KeyOrder == <<"chart", "followup_suggestions", "suggested_questions",
              "_pending_viz_data", "suggestions", "sample_data",
              "type", "po_number", "status">>
\* a text cut off in the middle of an object
TruncatedText == <<Tok("{", ""), Tok("key", "chart")>>

\* the text a value is stored as (the backend's encoder)
RECURSIVE Stringify(_), StringifyMembers(_, _)
Stringify(x) ==
  CASE x.t = "str" -> <<Tok("str", x.v)>>
    [] x.t = "arr" -> <<Tok("[", "")>> \o [i \in 1..Len(x.v) |-> Tok("str", x.v[i])]
                      \o <<Tok("]", "")>>
    [] x.t = "obj" -> <<Tok("{", "")>> \o StringifyMembers(x.v, KeyOrder)
                      \o <<Tok("}", "")>>
    [] OTHER -> <<Tok("null", "")>>
StringifyMembers(f, keys) ==
  IF keys = <<>> THEN <<>>
  ELSE (IF Head(keys) \in DOMAIN f
        THEN <<Tok("key", Head(keys))>> \o Stringify(f[Head(keys)])
        ELSE <<>>)
       \o StringifyMembers(f, Tail(keys))

\* JSON.parse: the value of a text, or a SyntaxError (ok = FALSE)
ParseFail == [ok |-> FALSE, value |-> JUndefined, rest |-> <<>>]
Parsed(value, rest) == [ok |-> TRUE, value |-> value, rest |-> rest]

RECURSIVE ParseValue(_), ParseItems(_, _), ParseMembers(_, _)
ParseValue(ts) ==
  IF ts = <<>> THEN ParseFail
  ELSE CASE Head(ts).k = "str" -> Parsed(JStr(Head(ts).v), Tail(ts))
         [] Head(ts).k = "null" -> Parsed(JNull, Tail(ts))
         [] Head(ts).k = "[" -> ParseItems(Tail(ts), <<>>)
         [] Head(ts).k = "{" -> ParseMembers(Tail(ts), <<>>)
         [] OTHER -> ParseFail
ParseItems(ts, acc) ==
  IF ts = <<>> THEN ParseFail
  ELSE IF Head(ts).k = "]" THEN Parsed(JArr(acc), Tail(ts))
  ELSE IF Head(ts).k = "str" THEN ParseItems(Tail(ts), Append(acc, Head(ts).v))
  ELSE ParseFail
ParseMembers(ts, acc) ==
  IF ts = <<>> THEN ParseFail
  ELSE IF Head(ts).k = "}" THEN Parsed(JObj(acc), Tail(ts))
  ELSE IF Head(ts).k = "key"
  THEN LET r == ParseValue(Tail(ts))
       IN  IF r.ok THEN ParseMembers(r.rest, (Head(ts).v :> r.value) @@ acc)
           ELSE ParseFail
  ELSE ParseFail

JSONParse(text) ==
  LET r == ParseValue(text)
  IN  IF r.ok /\ r.rest = <<>> THEN r ELSE ParseFail

\* try { x = JSON.parse(x) } catch { x = null }
ParseOrNull_KeepsText(x) == IF JSONParse(x.v).ok THEN JSONParse(x.v).value ELSE x

ParseOrNull(x) == IF JSONParse(x.v).ok THEN JSONParse(x.v).value ELSE JNull

----------------------------------------------------------------------------
(***************************************************************************)
(* POSidebar: purchase-order lists                                         *)
(***************************************************************************)

\* a field that is undefined or the empty string (falsy)
Missing == ""

PO(n, st, v) == [po_number |-> n, status |-> st, vendor_name |-> v]

\* the purchase orders the backend may return for a project: two orders of
\* today, one order of the other day
ServerPOs(d) ==
  IF IsToday(d) THEN { PO("PO-1", "rejected", "V1"), PO("PO-2", "approved", "V2") }
  ELSE { PO("PO-1", "rejected", "V1") }
FetchResults(d) == UNION { [1..n -> ServerPOs(d)] : n \in 0..MaxPOs }

FilterTypes == {"all", "pending"}

\* the priority table of the sort comparator
priority ==
  [pending_approval |-> 0, rejected |-> 1, sent_to_vendor |-> 2, approved |-> 2]

\* `priority[status] || 3`: an entry that is undefined or 0 yields 3
SortKey(status) ==
  IF status \in DOMAIN priority /\ priority[status] # 0
  THEN priority[status] ELSE 3

\* Array.prototype.sort with the comparator SortKey(a) - SortKey(b): a
\* stable sort by ascending key
RECURSIVE SortByPriority(_)
SortByPriority(list) ==
  IF Len(list) <= 1 THEN list
  ELSE LET sorted == SortByPriority(SubSeq(list, 1, Len(list) - 1))
           x == list[Len(list)]
           k == Cardinality({i \in 1..Len(sorted) :
                              SortKey(sorted[i].status) <= SortKey(x.status)})
       IN  SubSeq(sorted, 1, k) \o <<x>> \o SubSeq(sorted, k + 1, Len(sorted))

\* The render that follows a change of a PO list or of its filter.  With the
\* filter 'all' filteredTodayPOs IS the state array and sortedTodayPOs sorts
\* it in place; with another filter, filter() copies and the state array is
\* left as it is.
RenderPOs(list, filter) ==
  IF filter = "all" THEN SortByPriority(list) ELSE list

\* filteredTodayPOs / filteredSelectedDatePOs
IsPending(po) == po.status = "pending_approval"
FilteredPOs(list, filter) ==
  IF filter = "pending" THEN SelectSeq(list, IsPending) ELSE list

\* the lists the sidebar displays
sortedTodayPOs == SortByPriority(FilteredPOs(todayPOs, todayFilter))
sortedSelectedDatePOs ==
  SortByPriority(FilteredPOs(selectedDatePOs, selectedDateFilter))

\* an updater that inserts the order when no entry has the number
UpdateStatus_Upsert(list, p, s) ==
  IF \E i \in 1..Len(list) : list[i].po_number = p
  THEN [i \in 1..Len(list) |->
          IF list[i].po_number = p THEN [list[i] EXCEPT !.status = s] ELSE list[i]]
  ELSE Append(list, PO(p, s, Missing))

\* an updater that appends the updated entries instead of replacing them
UpdateStatus_AppendsCopy(list, p, s) ==
  list \o [i \in 1..Len(SelectSeq(list, LAMBDA po : po.po_number = p)) |->
            [SelectSeq(list, LAMBDA po : po.po_number = p)[i] EXCEPT !.status = s]]

\* the updater passed to setTodayPOs / setSelectedDatePOs by po_status_update
UpdateStatus(list, p, s) ==
  [i \in 1..Len(list) |->
     IF list[i].po_number = p THEN [list[i] EXCEPT !.status = s] ELSE list[i]]

\* what a WebSocket may deliver: text that is not JSON, or a WebSocketMessage
Payload(type, n, st) == [type |-> type, po_number |-> n, status |-> st]
NoPayload == Payload("none", Missing, Missing)
WorkflowPayloads ==
  { Payload(t, Missing, Missing) :
      t \in {"workflow_progress", "workflow_complete", "workflow_error",
             "connection_established"} }
GarbagePayload == Payload("garbage", Missing, Missing)
StatusPayloads ==
  { Payload("po_status_update", "PO-1", "pending_approval"),
         Payload("po_status_update", "PO-9", "approved"),
         Payload("po_status_update", "PO-1", Missing),
         Payload("po_status_update", Missing, "approved") }
WsPayloads == WorkflowPayloads \cup StatusPayloads \cup {GarbagePayload}

\* event.data of a payload: the JSON text of the WebSocketMessage, or a text
\* that is not JSON
PayloadObject(d) ==
  JObj([k \in {f \in {"type", "po_number", "status"} : d[f] # Missing}
          |-> JStr(d[k])])
EventData(d) ==
  IF d = GarbagePayload THEN TruncatedText ELSE Stringify(PayloadObject(d))

\* a key of the parsed message, as handleWebSocketMessage reads it
Field(v, k) == IF Get(v, k).t = "str" THEN Get(v, k).v ELSE Missing

\* the try block of ws.onmessage up to the call of handleWebSocketMessage:
\* the parsed WebSocketMessage, or GarbagePayload when JSON.parse throws
ParseEventData_ErrorAsWorkflowError(text) ==
  LET r == JSONParse(text)
  IN  IF r.ok
      THEN Payload(Field(r.value, "type"), Field(r.value, "po_number"),
                   Field(r.value, "status"))
      ELSE Payload("workflow_error", Missing, Missing)

ParseEventData(text) ==
  LET r == JSONParse(text)
  IN  IF r.ok
      THEN Payload(Field(r.value, "type"), Field(r.value, "po_number"),
                   Field(r.value, "status"))
      ELSE GarbagePayload

\* what ws.onmessage makes of each payload
Received == [d \in WsPayloads |-> ParseEventData(EventData(d))]

\* fetchTodayPOs in a render with selectedProject = p
StartTodayFetch(f, p) ==
  IF p = NoProject THEN f
  ELSE f (+) SetToBag({[kind |-> "today", project |-> p, date |-> "today"]})

\* fetchPOsForDate(dateStr) in a render with selectedProject = p
DateFetchStarts(p, d) == p # NoProject /\ ~IsToday(d)

StartDateFetch(f, p, d) ==
  IF DateFetchStarts(p, d)
  THEN f (+) SetToBag({[kind |-> "date", project |-> p, date |-> d]})
  ELSE f

\* fetchTodayPOs(); if (!isToday(selectedDate)) fetchPOsForDate(...)
StartFetches(f, p, d) == StartDateFetch(StartTodayFetch(f, p), p, d)

FetchCount(p, d) ==
  IF p = NoProject THEN 0 ELSE IF IsToday(d) THEN 1 ELSE 2

HasRoom(n) == BagCardinality(fetches) + n <= MaxFetches

Mounted == sidebar = "mounted"

\* handleWebSocketMessage(data) of the render that created socket i
HandleWebSocketMessage(i, data) ==
  /\ workflowStatus' =
       CASE data.type = "workflow_progress" -> "message"
         [] data.type \in {"workflow_complete", "workflow_error"} -> "null"
         [] OTHER -> workflowStatus
  /\ lastWorkflowError' =
       CASE data.type = "workflow_complete" -> "null"
         [] data.type = "workflow_error" -> "error"
         [] OTHER -> lastWorkflowError
  /\ refetchTimers' =
       IF data.type = "workflow_complete"
       THEN refetchTimers (+) SetToBag({[project |-> sockets[i].project,
                                         date |-> sockets[i].date]})
       ELSE refetchTimers
  /\ IF data.type = "po_status_update"
          /\ data.po_number # Missing /\ data.status # Missing
     THEN /\ todayPOs' = RenderPOs(
                 UpdateStatus(todayPOs, data.po_number, data.status), todayFilter)
          /\ selectedDatePOs' = RenderPOs(
                 UpdateStatus(selectedDatePOs, data.po_number, data.status),
                 selectedDateFilter)
     ELSE UNCHANGED <<todayPOs, selectedDatePOs>>

\* ws.onmessage: JSON.parse, then handleWebSocketMessage; text that does not
\* parse is logged and dropped
OnMessage(i, data) ==
  /\ Mounted
  /\ i \in DOMAIN sockets
  /\ sockets[i].state = "open"
  /\ data.type = "workflow_complete" => BagCardinality(refetchTimers) < MaxRefetch
  /\ wsLog' = data
  /\ IF Received[data] = GarbagePayload
     THEN UNCHANGED <<workflowStatus, lastWorkflowError, refetchTimers,
                      todayPOs, selectedDatePOs>>
     ELSE HandleWebSocketMessage(i, Received[data])
  /\ UNCHANGED <<selectedDate, todayFilter, selectedDateFilter, isLoading,
                 fetches, pollDeps, pollInterval>>
  /\ UNCHANGED <<pollLog, wsVars, chatVars, dashVars>>

\* the setTimeout callback of workflow_complete
RefetchTimer(t) ==
  /\ Mounted
  /\ BagIn(t, refetchTimers)
  /\ HasRoom(FetchCount(t.project, t.date))
  /\ refetchTimers' = refetchTimers (-) SetToBag({t})
  /\ fetches' = StartFetches(fetches, t.project, t.date)
  /\ isLoading' = IF DateFetchStarts(t.project, t.date) THEN TRUE ELSE isLoading
  /\ UNCHANGED <<selectedDate, todayPOs, selectedDatePOs, todayFilter,
                 selectedDateFilter, workflowStatus, lastWorkflowError, wsLog,
                 pollDeps, pollInterval>>
  /\ UNCHANGED <<pollLog, wsVars, chatVars, dashVars>>

CurrentPollDeps ==
  [project |-> selectedProject, date |-> selectedDate, isConnected |-> isConnected]

\* the polling effect, deps [selectedProject, selectedDate, isConnected]:
\* the cleanup of its previous run clears the interval, then the effect loads
\* the lists and starts a new interval
PollEffect ==
  /\ Mounted
  /\ pollDeps # CurrentPollDeps
  /\ HasRoom(FetchCount(selectedProject, selectedDate))
  /\ pollDeps' = CurrentPollDeps
  /\ fetches' = StartFetches(fetches, selectedProject, selectedDate)
  /\ isLoading' = IF DateFetchStarts(selectedProject, selectedDate) THEN TRUE
                  ELSE isLoading
  /\ pollInterval' = IF selectedProject = NoProject THEN NoInterval
                     ELSE CurrentPollDeps
  /\ UNCHANGED <<selectedDate, todayPOs, selectedDatePOs, todayFilter,
                 selectedDateFilter, workflowStatus, lastWorkflowError, wsLog,
                 refetchTimers>>
  /\ UNCHANGED <<pollLog, wsVars, chatVars, dashVars>>

\* `if (!isConnected)` in the callback of the interval created by the
\* effect's render
TickFetches_Always(interval) == TRUE

TickFetches(interval) == ~interval.isConnected

\* a tick of the 15 s interval: the callback of the render that created it
PollTick ==
  /\ Mounted
  /\ pollInterval # NoInterval
  /\ HasRoom(FetchCount(pollInterval.project, pollInterval.date))
  /\ IF TickFetches(pollInterval)
     THEN /\ fetches' = StartFetches(fetches, pollInterval.project,
                                     pollInterval.date)
          /\ isLoading' = IF DateFetchStarts(pollInterval.project, pollInterval.date)
                          THEN TRUE ELSE isLoading
          /\ pollLog' = "fetched"
     ELSE /\ UNCHANGED <<fetches, isLoading>>
          /\ pollLog' = "skipped"
  /\ UNCHANGED <<selectedDate, todayPOs, selectedDatePOs, todayFilter,
                 selectedDateFilter, workflowStatus, lastWorkflowError, wsLog,
                 refetchTimers, pollDeps, pollInterval>>
  /\ UNCHANGED <<wsVars, chatVars, dashVars>>

FetchOutcomes == {"ok", "ok_no_pos", "not_ok", "throws"}

\* the list a fetch sets for a response; `data.pos || []`
FetchedPOs(outcome, pos, current) ==
  CASE outcome = "ok" -> pos
    [] outcome = "ok_no_pos" -> <<>>
    [] OTHER -> current

\* the response of GET /po/project/{id}?order_date= arrives
FetchResponse(r, outcome, pos) ==
  /\ Mounted
  /\ BagIn(r, fetches)
  /\ fetches' = fetches (-) SetToBag({r})
  /\ IF r.kind = "today"
     THEN /\ todayPOs' = RenderPOs(FetchedPOs(outcome, pos, todayPOs), todayFilter)
          /\ UNCHANGED <<selectedDatePOs, isLoading>>
     ELSE /\ selectedDatePOs' =
               RenderPOs(FetchedPOs(outcome, pos, selectedDatePOs), selectedDateFilter)
          /\ isLoading' = FALSE
          /\ UNCHANGED todayPOs
  /\ UNCHANGED <<selectedDate, todayFilter, selectedDateFilter, workflowStatus,
                 lastWorkflowError, wsLog, refetchTimers, pollDeps, pollInterval>>
  /\ UNCHANGED <<pollLog, wsVars, chatVars, dashVars>>

\* the calendar's onSelect
SetSelectedDate(d) ==
  /\ Mounted
  /\ d # selectedDate
  /\ selectedDate' = d
  /\ UNCHANGED <<todayPOs, selectedDatePOs, todayFilter, selectedDateFilter,
                 isLoading, workflowStatus, lastWorkflowError, wsLog, fetches,
                 refetchTimers, pollDeps, pollInterval>>
  /\ UNCHANGED <<pollLog, wsVars, chatVars, dashVars>>

\* FilterButtons of today's list: onFilterChange = setTodayFilter
SetTodayFilter(f) ==
  /\ Mounted
  /\ f # todayFilter
  /\ todayFilter' = f
  /\ todayPOs' = RenderPOs(todayPOs, f)
  /\ UNCHANGED <<selectedDate, selectedDatePOs, selectedDateFilter, isLoading,
                 workflowStatus, lastWorkflowError, wsLog, fetches,
                 refetchTimers, pollDeps, pollInterval>>
  /\ UNCHANGED <<pollLog, wsVars, chatVars, dashVars>>

\* FilterButtons of the selected date's list
SetSelectedDateFilter(f) ==
  /\ Mounted
  /\ f # selectedDateFilter
  /\ selectedDateFilter' = f
  /\ selectedDatePOs' = RenderPOs(selectedDatePOs, f)
  /\ UNCHANGED <<selectedDate, todayPOs, todayFilter, isLoading,
                 workflowStatus, lastWorkflowError, wsLog, fetches,
                 refetchTimers, pollDeps, pollInterval>>
  /\ UNCHANGED <<pollLog, wsVars, chatVars, dashVars>>

FetchClosures == [kind : {"today", "date"}, project : Projects, date : Dates]
RefetchClosures == [project : Projects, date : Dates]

----------------------------------------------------------------------------
(***************************************************************************)
(* ChatInterface: message list                                             *)
(***************************************************************************)

NoConv == "null"
Conversations == {"cA", "cB"}
ConvOrNone == Conversations \cup {NoConv}

\* the input field: empty, blank, or a question
Inputs == {"", " ", "q"}
Trim(text) == IF text = " " THEN "" ELSE text

(***************************************************************************)
(* Messages                                                                *)
(***************************************************************************)
\* how a field of a server record was stored (not a field of the code's
\* Message; kept with a loaded Message to tell where it came from)
Form(x) ==
  IF x.t = "undefined" THEN "absent"
  ELSE IF x.t # "text" THEN "value"
  ELSE IF JSONParse(x.v).ok THEN "text" ELSE "unparseable"
NoStored == [query_result |-> "absent", metadata |-> "absent"]

\* A Message.  conv is not a field of the code's Message: it records the
\* conversation the entry was created for (the conversation whose history
\* it was loaded from, or the currentConversationId its handler captured).
\* A Message built by a handler leaves the fields of a stored record undefined.
Msg(id, sender, intent, conv) ==
  [id |-> id, sender |-> sender, intent |-> intent, conv |-> conv,
   queryResult |-> JUndefined, sample_data |-> JUndefined,
   suggestion |-> JUndefined, chart |-> JUndefined,
   chart_suggestions |-> JUndefined, followup_suggestions |-> JUndefined,
   requires_chart_selection |-> FALSE, stored |-> NoStored]

\* a record of data.messages
Raw(id, role, intent, query_result, metadata) ==
  [id |-> id, role |-> role, intent |-> intent, query_result |-> query_result,
   metadata |-> metadata]

\* the query_result and the metadata the mapper works with, after its
\* defensive decoding
DecodedQueryResult(msg) ==
  IF TypeofString(msg.query_result) THEN ParseOrNull(msg.query_result)
  ELSE msg.query_result

DecodedMetadata_NoParse(msg) ==
  LET m0 == Or(msg.metadata, EmptyObject)
  IN  IF ~Truthy(m0) \/ ~TypeofObject(m0) THEN EmptyObject ELSE m0

DecodedMetadata(msg) ==
  LET m0 == Or(msg.metadata, EmptyObject)
      m1 == IF Truthy(m0) /\ TypeofString(m0) THEN ParseOrNull(m0) ELSE m0
  IN  IF ~Truthy(m1) \/ ~TypeofObject(m1) THEN EmptyObject ELSE m1

\* the callback of data.messages.map in loadConversationMessages, for a
\* record of the history of conversation conv
FormatMessage(msg, conv) ==
  LET queryResult == DecodedQueryResult(msg)
      metadata == DecodedMetadata(msg)
      pendingVizData == Or(Get(metadata, "_pending_viz_data"), EmptyObject)
      suggestionsContainer == Or(Get(pendingVizData, "suggestions"), EmptyObject)
      chartSuggestions == Or(Get(suggestionsContainer, "suggestions"), EmptyArray)
      suggestedQuestions ==
        Or(Get(metadata, "suggested_next_questions"),
           Or(Get(metadata, "suggested_questions"),
              Or(Get(pendingVizData, "suggested_questions"), EmptyArray)))
  IN  [id |-> msg.id,
       sender |-> IF msg.role = "user" THEN "user" ELSE "ai",
       intent |-> msg.intent,
       conv |-> conv,
       queryResult |-> queryResult,
       sample_data |-> Or(Get(queryResult, "sample_data"),
                          Or(Get(queryResult, "data"), JUndefined)),
       suggestion |-> suggestedQuestions,
       chart |-> IF Truthy(Get(metadata, "chart")) THEN Get(metadata, "chart")
                 ELSE JUndefined,
       chart_suggestions |-> Or(chartSuggestions, EmptyArray),
       followup_suggestions |-> Or(Get(metadata, "followup_suggestions"), EmptyArray),
       requires_chart_selection |->
         HasLength(chartSuggestions) \/ HasLength(Get(pendingVizData, "suggestions")),
       stored |-> [query_result |-> Form(msg.query_result),
                   metadata |-> Form(msg.metadata)]]

FormatMessages(history, conv) ==
  [k \in 1..Len(history) |-> FormatMessage(history[k], conv)]

\* the welcome Message built by the effect and by the empty-history branch
WelcomeMessage(emb) ==
  Msg("welcome", "ai", IF emb THEN "processing_status" ELSE "welcome", NoConv)

\* what the server may hold as the history of conversation c
Histories(c) ==
  { <<Raw("m1", "user", "q", JUndefined, JUndefined)>> }

\* the effect with deps [currentConversationId, selectedProject?.id,
\* isEmbeddingProcessing], run in the render with props (c, p, emb)
RunChatEffect(c, p, emb) ==
  IF c # NoConv
  THEN /\ loads' = loads (+) SetToBag({[conv |-> c, project |-> p, emb |-> emb]})
       /\ messages' = messages
  ELSE /\ loads' = loads
       /\ messages' = IF p # NoProject THEN <<WelcomeMessage(emb)>> ELSE <<>>

EffectHasRoom(c) == c # NoConv => BagCardinality(loads) < MaxLoads

ChatMount(c, p, emb) ==
  /\ chat = "new"
  /\ chat' = "mounted"
  /\ currentConversationId' = c
  /\ chatProject' = p
  /\ isEmbeddingProcessing' = emb
  /\ RunChatEffect(c, p, emb)
  /\ UNCHANGED <<message, isTyping, error, queries>>
  /\ UNCHANGED <<loadVars, wsVars, poVars, dashVars>>
  /\ UNCHANGED <<submitTimers, downloadVars>>

\* the parent passes another currentConversationId
SelectConversation(c) ==
  /\ chat = "mounted"
  /\ c # currentConversationId
  /\ EffectHasRoom(c)
  /\ currentConversationId' = c
  /\ RunChatEffect(c, chatProject, isEmbeddingProcessing)
  /\ UNCHANGED <<chat, chatProject, isEmbeddingProcessing, message, isTyping,
                 error, queries>>
  /\ UNCHANGED <<loadVars, wsVars, poVars, dashVars>>
  /\ UNCHANGED <<submitTimers, downloadVars>>

\* the parent passes another selectedProject
ChatSelectProject(p) ==
  /\ chat = "mounted"
  /\ p # chatProject
  /\ EffectHasRoom(currentConversationId)
  /\ chatProject' = p
  /\ RunChatEffect(currentConversationId, p, isEmbeddingProcessing)
  /\ UNCHANGED <<chat, currentConversationId, isEmbeddingProcessing, message,
                 isTyping, error, queries>>
  /\ UNCHANGED <<loadVars, wsVars, poVars, dashVars>>
  /\ UNCHANGED <<submitTimers, downloadVars>>

\* the parent passes another isEmbeddingProcessing
SetEmbeddingProcessing(emb) ==
  /\ chat = "mounted"
  /\ emb # isEmbeddingProcessing
  /\ EffectHasRoom(currentConversationId)
  /\ isEmbeddingProcessing' = emb
  /\ RunChatEffect(currentConversationId, chatProject, emb)
  /\ UNCHANGED <<chat, chatProject, currentConversationId, message, isTyping,
                 error, queries>>
  /\ UNCHANGED <<loadVars, wsVars, poVars, dashVars>>
  /\ UNCHANGED <<submitTimers, downloadVars>>

\* the list loadConversationMessages sets for a response, given the closure l
\* of the call; "keep" stands for: setMessages is not called
LoadOutcomes == {"ok", "ok_empty", "not_ok", "throws"}
NoLoad == [outcome |-> "none", project |-> NoProject]

LoadedMessages_NeverWelcome(l, outcome, history, current) ==
  CASE outcome = "ok" -> FormatMessages(history, l.conv)
    [] outcome = "ok_empty" -> <<>>
    [] OTHER -> current

LoadedMessages(l, outcome, history, current) ==
  CASE outcome = "ok" -> FormatMessages(history, l.conv)
    [] outcome = "ok_empty" ->
         IF l.project # NoProject THEN <<WelcomeMessage(l.emb)>> ELSE <<>>
    [] OTHER -> current

\* the response of GET /chat/conversation/{id}/messages arrives
LoadResponse(l, outcome, history) ==
  /\ BagIn(l, loads)
  /\ history = serverMessages
  /\ loads' = loads (-) SetToBag({l})
  /\ messages' = LoadedMessages(l, outcome, history, messages)
  /\ lastLoad' = IF outcome = "ok_empty"
                 THEN [outcome |-> outcome, project |-> l.project]
                 ELSE NoLoad
  /\ UNCHANGED <<chat, chatProject, currentConversationId, isEmbeddingProcessing,
                 message, isTyping, error, queries, serverMessages>>
  /\ UNCHANGED <<wsVars, poVars, dashVars>>
  /\ UNCHANGED <<submitTimers, downloadVars>>

\* onChange of the input field
TypeMessage(text) ==
  /\ chat = "mounted"
  /\ chatProject # NoProject
  /\ text # message
  /\ message' = text
  /\ UNCHANGED <<chat, chatProject, currentConversationId, isEmbeddingProcessing,
                 messages, isTyping, error, queries, loads>>
  /\ UNCHANGED <<loadVars, wsVars, poVars, dashVars>>
  /\ UNCHANGED <<submitTimers, downloadVars>>

UserMessage(text, c) == Msg("local", "user", Trim(text), c)
ErrorMessage(c) == Msg("local", "ai", "error", c)
AnswerMessage(c) == Msg("local", "ai", "answer", c)

\* the guard of handleSendMessage
SubmitAccepted(text, p, typing) ==
  Trim(text) # "" /\ p # NoProject /\ ~typing

\* handleSendMessage up to its first await: the form is submitted in the
\* current render.  Without a token the throw is caught before any await,
\* so the error Message and the finally block belong to the same step.
SendMessage ==
  /\ chat = "mounted"
  /\ SubmitAccepted(message, chatProject, isTyping)
  /\ Len(messages) + 2 <= MaxMsgs
  /\ message' = ""
  /\ IF ~access_token
     THEN /\ messages' = messages \o <<UserMessage(message, currentConversationId),
                                       ErrorMessage(currentConversationId)>>
          /\ error' = "message"
          /\ isTyping' = FALSE
          /\ queries' = queries
     ELSE /\ messages' = Append(messages, UserMessage(message, currentConversationId))
          /\ error' = "null"
          /\ isTyping' = TRUE
          /\ queries' = queries (+) SetToBag({[conv |-> currentConversationId,
                                               project |-> chatProject,
                                               emb |-> isEmbeddingProcessing]})
  /\ UNCHANGED <<chat, chatProject, currentConversationId, isEmbeddingProcessing,
                 loads>>
  /\ UNCHANGED <<loadVars, wsVars, poVars, dashVars>>
  /\ UNCHANGED <<submitTimers, downloadVars>>

\* how POST /chat/query may settle: a response with final_answer, a 200
\* response without final_answer, HTTP 401, another error status, or a
\* rejected fetch
QueryOutcomes == {"ok", "ok_no_answer", "unauthorized", "error_status", "network_error"}

\* does the try block of handleSendMessage throw for this outcome
\* (data.final_answer.includes is evaluated only when isEmbeddingProcessing)
QueryThrows(q, outcome) ==
  \/ outcome \in {"unauthorized", "error_status", "network_error"}
  \/ outcome = "ok_no_answer" /\ q.emb

\* a handler that redirects to the login page on 401 and shows nothing
SettledMessages_Silent401(q, outcome) ==
  IF outcome = "unauthorized" THEN <<>>
  ELSE IF outcome \in {"error_status", "network_error"}
            \/ (outcome = "ok_no_answer" /\ q.emb)
       THEN <<ErrorMessage(q.conv)>>
       ELSE <<AnswerMessage(q.conv)>>

\* the Messages handleSendMessage appends once the call has settled
SettledMessages(q, outcome) ==
  IF QueryThrows(q, outcome) THEN <<ErrorMessage(q.conv)>>
  ELSE <<AnswerMessage(q.conv)>>

\* the rest of handleSendMessage: the fetch of closure q settles
QueryResponse(q, outcome) ==
  /\ BagIn(q, queries)
  /\ queries' = queries (-) SetToBag({q})
  /\ messages' = messages \o SettledMessages(q, outcome)
  /\ error' = IF QueryThrows(q, outcome) THEN "message" ELSE error
  /\ isTyping' = FALSE
  /\ UNCHANGED <<chat, chatProject, currentConversationId, isEmbeddingProcessing,
                 message, loads>>
  /\ UNCHANGED <<loadVars, wsVars, poVars, dashVars>>
  /\ UNCHANGED <<submitTimers, downloadVars>>

\* what handleSuggestionClick, handleChartSelect and handleFollowupClick put
\* into the input field: a suggested question, "Use the ... chart", or the
\* query_modification of a follow-up
ClickTexts == {"s", "c"}

\* does a rendered Message show buttons that call one of the three handlers
OffersChoices(m) ==
  /\ m.sender = "ai"
  /\ \/ m.intent = "answer"
     \/ HasLength(m.suggestion)
     \/ Truthy(m.chart) /\ HasLength(m.followup_suggestions)
     \/ m.requires_chart_selection /\ HasLength(m.chart_suggestions)

\* the callback the three handlers pass to setTimeout(..., 100): it calls the
\* handleSendMessage of the render the button was clicked in, which reads
\* that render's message, selectedProject, isTyping, currentConversationId
\* and isEmbeddingProcessing.  clicked is not read by the callback: it
\* records the argument of the handler.
SubmitClosure(text) ==
  [message |-> message, project |-> chatProject, isTyping |-> isTyping,
   conv |-> currentConversationId, emb |-> isEmbeddingProcessing,
   clicked |-> text]

\* handleSuggestionClick / handleChartSelect / handleFollowupClick
SuggestionClick(text) ==
  /\ chat = "mounted"
  /\ chatProject # NoProject
  /\ \E k \in 1..Len(messages) : OffersChoices(messages[k])
  /\ BagCardinality(submitTimers) < MaxClicks
  /\ message' = text
  /\ submitTimers' = submitTimers (+) SetToBag({SubmitClosure(text)})
  /\ UNCHANGED <<chat, chatProject, currentConversationId, isEmbeddingProcessing,
                 messages, isTyping, error, queries, loads>>
  /\ UNCHANGED <<loadVars, downloadVars, wsVars, poVars, dashVars>>

\* the text the delayed handleSendMessage reads as message
DelayedText(t) == t.message

\* the timer of a click fires: handleSendMessage of the captured render
SubmitTimer(t) ==
  /\ BagIn(t, submitTimers)
  /\ submitTimers' = submitTimers (-) SetToBag({t})
  /\ Len(messages) + 2 <= MaxMsgs + 2 * MaxClicks
  /\ IF ~SubmitAccepted(DelayedText(t), t.project, t.isTyping)
     THEN UNCHANGED <<messages, message, isTyping, error, queries>>
     ELSE /\ message' = ""
          /\ IF ~access_token
             THEN /\ messages' = messages \o <<UserMessage(DelayedText(t), t.conv),
                                               ErrorMessage(t.conv)>>
                  /\ error' = "message"
                  /\ isTyping' = FALSE
                  /\ queries' = queries
             ELSE /\ messages' = Append(messages, UserMessage(DelayedText(t), t.conv))
                  /\ error' = "null"
                  /\ isTyping' = TRUE
                  /\ queries' = queries (+) SetToBag({[conv |-> t.conv,
                                                       project |-> t.project,
                                                       emb |-> t.emb]})
  /\ UNCHANGED <<chat, chatProject, currentConversationId, isEmbeddingProcessing,
                 loads>>
  /\ UNCHANGED <<loadVars, downloadVars, wsVars, poVars, dashVars>>

SubmitClosures ==
  [message : Inputs \cup ClickTexts, project : Projects, isTyping : BOOLEAN,
   conv : ConvOrNone, emb : BOOLEAN, clicked : ClickTexts]

QueryClosures == [conv : ConvOrNone, project : Projects, emb : BOOLEAN]
LoadClosures == [conv : Conversations, project : ProjectOrNone, emb : BOOLEAN]
AllHistories == UNION {Histories(c) : c \in Conversations}

\* Stored records with content: what metadata and query_result may hold, as
\* the object, as its JSON text, or as a text that does not parse
ChartMetadata ==
  JObj(("chart" :> JStr("bar")) @@ ("followup_suggestions" :> JArr(<<"f1">>)))
PendingVizMetadata ==
  JObj("_pending_viz_data" :>
         JObj(("suggestions" :> JObj("suggestions" :> JArr(<<"line">>)))
              @@ ("suggested_questions" :> JArr(<<"q1">>))))
SampleQueryResult == JObj("sample_data" :> JArr(<<"row">>))

MetadataValues == {JNull, ChartMetadata, PendingVizMetadata}
QueryResultValues == {SampleQueryResult}
Encodings(values) ==
  values \cup {JText(Stringify(v)) : v \in values} \cup {JText(TruncatedText)}

\* the records the backend may hold at position k of a history
StoredRecords(k) ==
  LET id == IF k = 1 THEN "m1" ELSE IF k = 2 THEN "m2" ELSE "m3"
      role == IF k % 2 = 1 THEN "user" ELSE "assistant"
  IN  {Raw(id, role, "q", q, m) :
         <<q, m>> \in {qm \in (Encodings(QueryResultValues) \cup {JUndefined})
                              \X (Encodings(MetadataValues) \cup {JUndefined}) :
                        \/ Form(qm[1]) = "absent"
                        \/ Form(qm[2]) = "absent"
                        \/ Form(qm[1]) = Form(qm[2])}}

RECURSIVE HistoriesOfLength(_)
HistoriesOfLength(n) ==
  IF n = 0 THEN {<<>>}
  ELSE {Append(h, r) : h \in HistoriesOfLength(n - 1), r \in StoredRecords(n)}

RichHistories == UNION {HistoriesOfLength(n) : n \in 1..MaxHistory}

----------------------------------------------------------------------------
(***************************************************************************)
(* DownloadManagement: the list of generated documents                     *)
(***************************************************************************)
Document(id, p, status) == [id |-> id, projectId |-> p, status |-> status]

\* the initial value of useState: four documents with ids "1" to "4"
InitialDocuments ==
  <<Document(1, "A", "ready"), Document(2, "A", "ready"),
    Document(3, "B", "ready"), Document(4, "A", "generating")>>

\* the documents the table shows: those of the selected project, if any
ShownDocuments(docs, p) ==
  SelectSeq(docs, LAMBDA doc : p = NoProject \/ doc.projectId = p)

HasDocument(docs, id) == \E k \in 1..Len(docs) : docs[k].id = id

\* the parent passes another selectedProject
DownloadSelectProject(p) ==
  /\ p # downloadProject
  /\ downloadProject' = p
  /\ UNCHANGED <<documents, generationTimers, clock, downloadLog>>
  /\ UNCHANGED <<wsVars, poVars, dashVars>>
  /\ UNCHANGED <<chat, chatProject, currentConversationId, isEmbeddingProcessing,
                 messages, message, isTyping, error, queries, loads, submitTimers,
                 loadVars>>

\* generateNewDocument: the click reads Date.now() for the id, puts the new
\* document first and starts the 3 s timer.  Two clicks are two input events
\* of the user: the clock has advanced between them.
GenerateNewDocument ==
  /\ downloadProject # NoProject
  /\ clock < Len(InitialDocuments) + MaxGenerated
  /\ clock' = clock + 1
  /\ documents' = <<Document(clock', downloadProject, "generating")>> \o documents
  /\ generationTimers' = generationTimers \cup {clock'}
  /\ UNCHANGED <<downloadProject, downloadLog>>
  /\ UNCHANGED <<wsVars, poVars, dashVars>>
  /\ UNCHANGED <<chat, chatProject, currentConversationId, isEmbeddingProcessing,
                 messages, message, isTyping, error, queries, loads, submitTimers,
                 loadVars>>

\* an updater that puts the document back when it is no longer listed
MarkReady_Upsert(docs, id) ==
  IF HasDocument(docs, id)
  THEN [k \in 1..Len(docs) |->
          IF docs[k].id = id THEN [docs[k] EXCEPT !.status = "ready"] ELSE docs[k]]
  ELSE <<Document(id, "A", "ready")>> \o docs

\* the updater of the timer: prev.map(doc => doc.id === newDoc.id ? ready : doc)
MarkReady(docs, id) ==
  [k \in 1..Len(docs) |->
     IF docs[k].id = id THEN [docs[k] EXCEPT !.status = "ready"] ELSE docs[k]]

\* the 3 s timer of generateNewDocument fires
GenerationTimer(id) ==
  /\ id \in generationTimers
  /\ generationTimers' = generationTimers \ {id}
  /\ documents' = MarkReady(documents, id)
  /\ downloadLog' = IF id \in downloadLog.removed
                    THEN [downloadLog EXCEPT !.late = @ \cup {id}]
                    ELSE downloadLog
  /\ UNCHANGED <<downloadProject, clock>>
  /\ UNCHANGED <<wsVars, poVars, dashVars>>
  /\ UNCHANGED <<chat, chatProject, currentConversationId, isEmbeddingProcessing,
                 messages, message, isTyping, error, queries, loads, submitTimers,
                 loadVars>>

\* handleDelete, from the delete button of a row of the table
HandleDelete(id) ==
  /\ HasDocument(ShownDocuments(documents, downloadProject), id)
  /\ documents' = SelectSeq(documents, LAMBDA doc : doc.id # id)
  /\ downloadLog' = [downloadLog EXCEPT !.removed = @ \cup {id}]
  /\ UNCHANGED <<downloadProject, generationTimers, clock>>
  /\ UNCHANGED <<wsVars, poVars, dashVars>>
  /\ UNCHANGED <<chat, chatProject, currentConversationId, isEmbeddingProcessing,
                 messages, message, isTyping, error, queries, loads, submitTimers,
                 loadVars>>

DocumentIds == 1..(Len(InitialDocuments) + MaxGenerated)

----------------------------------------------------------------------------
(***************************************************************************)
(* DashboardPage and EmbeddingStatusBanner: projects, embedding status     *)
(***************************************************************************)

\* the id the backend gives to a project created in this session
NewProject == "N"
DashProjects == Projects \cup {NewProject}

\* the projects GET /projects/ returns
ServerProjects == <<"A", "B">>

NoStatus == [null |-> TRUE]
EmbeddingStatus(t, pr, c, f, pe) ==
  [total |-> t, processing |-> pr, completed |-> c, failed |-> f, pending |-> pe]
StatusBusy == EmbeddingStatus(10, 2, 4, 0, 4)
StatusDone == EmbeddingStatus(10, 0, 10, 0, 0)

\* the bodies GET /documents/project/{id}/embedding-status answers with
ServerReports ==
  { [embedding_status |-> StatusBusy, is_processing |-> TRUE],
    [embedding_status |-> StatusDone, is_processing |-> FALSE] }

RestOutcomes == {"ok", "unauthorized", "error_status", "throws"}

\* A REST call in flight: the values its continuation closes over (the
\* project it is about, the selectedProject and the projects of the render
\* that made it) and whether the component that made it is still mounted
Request(kind, p, sel, list) ==
  [kind |-> kind, project |-> p, selected |-> sel, list |-> list, live |-> TRUE]

DashboardKinds == {"me", "projects", "embedding", "banner", "create", "delete",
                   "logout"}

\* the calls of a component that unmounts stay in flight; the state setters
\* of their continuations no longer do anything
Orphan(reqs, kinds) ==
  LET Out(x) == IF x.kind \in kinds THEN [x EXCEPT !.live = FALSE] ELSE x
      image == {Out(x) : x \in DOMAIN reqs}
  IN  [r \in image |->
         CopiesIn(r, reqs)
         + (IF r.kind \in kinds /\ ~r.live
            THEN CopiesIn([r EXCEPT !.live = TRUE], reqs) ELSE 0)]

RequestRoom(n) == BagCardinality(requests) + n <= MaxRequests

\* checkEmbeddingStatus(p) of DashboardPage, fetchStatus() of the banner
EmbeddingCall(p) == Request("embedding", p, p, <<>>)
BannerCall(p) == Request("banner", p, p, <<>>)

Interval(owner, p) == [owner |-> owner, project |-> p]

NoDialog == [project |-> NoProject, isDeleting |-> FALSE]

\* does the banner return a Card (TRUE) or null (FALSE)
BannerRenders(p, status, processing, err) ==
  /\ p # NoProject
  /\ ~(err # "null" \/ status = NoStatus)
  /\ status.total # 0
  /\ ~(~processing /\ status.completed = status.total)

\* selectedProject?.id changes from old to new: the cleanup and the body of
\* DashboardPage's polling effect, and the banner's mount (old = null),
\* update of projectId, or unmount (new = null)
SelectionEffects(old, new, reqs) ==
  /\ dashEmbeddingProcessing' =
       IF new = NoProject THEN FALSE ELSE dashEmbeddingProcessing
  /\ embeddingStatus' = IF new = NoProject THEN NoStatus ELSE embeddingStatus
  /\ bannerStatus' = IF new = NoProject THEN NoStatus ELSE bannerStatus
  /\ bannerIsProcessing' = IF new = NoProject THEN FALSE ELSE bannerIsProcessing
  /\ bannerError' = IF new = NoProject THEN "null" ELSE bannerError
  /\ intervals' =
       (intervals \ {Interval("dashboard", old), Interval("banner", old)})
       \cup (IF new = NoProject THEN {} ELSE {Interval("dashboard", new)})
       \cup (IF new # NoProject /\ bannerIsProcessing
             THEN {Interval("banner", new)} ELSE {})
  /\ requests' =
       IF new = NoProject THEN Orphan(reqs, {"banner"})
       ELSE reqs (+) SetToBag({EmbeddingCall(new)}) (+) SetToBag({BannerCall(new)})

\* the router leaves /dashboard: DashboardPage and its children unmount
DashboardUnmount(reqs) ==
  /\ dashboard' = "new"
  /\ user' = FALSE
  /\ projects' = <<>>
  /\ dashSelectedProject' = NoProject
  /\ deleteDialog' = NoDialog
  /\ dashEmbeddingProcessing' = FALSE
  /\ embeddingStatus' = NoStatus
  /\ bannerStatus' = NoStatus
  /\ bannerIsProcessing' = FALSE
  /\ bannerError' = "null"
  /\ intervals' = {}
  /\ requests' = Orphan(reqs, DashboardKinds)

\* first render of DashboardPage: fetchUserData; the other effects find no
\* user and no project
DashboardMount ==
  /\ route = "/dashboard"
  /\ dashboard = "new"
  /\ RequestRoom(1)
  /\ IF access_token
     THEN /\ dashboard' = "mounted"
          /\ requests' = requests (+) SetToBag({Request("me", NoProject, NoProject, <<>>)})
          /\ route' = route
     ELSE /\ route' = "/login"
          /\ UNCHANGED <<dashboard, requests>>
  /\ UNCHANGED <<token_type, lastSubmit, user, projects, dashSelectedProject,
                 deleteDialog, embeddingVars>>
  /\ UNCHANGED <<wsVars, poVars, chatVars>>

\* the response of GET /auth/me arrives (fetchUserData); on success the
\* effect with deps [user] runs fetchProjects
MeResponse(r, outcome) ==
  /\ BagIn(r, requests)
  /\ r.kind = "me"
  /\ CASE outcome = "unauthorized" ->
            /\ access_token' = FALSE
            /\ token_type' = FALSE
            /\ route' = "/login"
            /\ DashboardUnmount(requests (-) SetToBag({r}))
       [] outcome = "ok" /\ r.live ->
            /\ user' = TRUE
            /\ requests' =
                 IF access_token
                 THEN (requests (-) SetToBag({r}))
                      (+) SetToBag({Request("projects", NoProject, NoProject, <<>>)})
                 ELSE requests (-) SetToBag({r})
            /\ UNCHANGED <<access_token, token_type, route, dashboard, projects,
                           dashSelectedProject, deleteDialog, embeddingVars>>
       [] OTHER ->
            /\ requests' = requests (-) SetToBag({r})
            /\ UNCHANGED <<access_token, token_type, route, projectVars,
                           embeddingVars>>
  /\ UNCHANGED lastSubmit
  /\ UNCHANGED <<wsState, poVars, chatVars>>

\* the response of GET /projects/ arrives (fetchProjects)
ProjectsResponse(r, outcome) ==
  /\ BagIn(r, requests)
  /\ r.kind = "projects"
  /\ requests' = requests (-) SetToBag({r})
  /\ projects' = IF outcome = "ok" /\ r.live THEN ServerProjects ELSE projects
  /\ UNCHANGED <<authVars, dashboard, user, dashSelectedProject, deleteDialog,
                 embeddingVars>>
  /\ UNCHANGED <<wsVars, poVars, chatVars>>

Elements(list) == {list[k] : k \in 1..Len(list)}

\* a click on a project of the list: setSelectedProject(project)
SelectProjectClick(p) ==
  /\ dashboard = "mounted"
  /\ p \in Elements(projects)
  /\ p # dashSelectedProject
  /\ deleteDialog.project = NoProject
  /\ RequestRoom(2)
  /\ dashSelectedProject' = p
  /\ SelectionEffects(dashSelectedProject, p, requests)
  /\ UNCHANGED <<authVars, dashboard, user, projects, deleteDialog>>
  /\ UNCHANGED <<wsVars, poVars, chatVars>>

\* a tick of a 3-second interval: checkEmbeddingStatus(selectedProject.id) of
\* DashboardPage, or fetchStatus() of the banner
Tick(t) ==
  /\ t \in intervals
  /\ RequestRoom(1)
  /\ requests' = requests (+) SetToBag({IF t.owner = "dashboard"
                                        THEN EmbeddingCall(t.project)
                                        ELSE BannerCall(t.project)})
  /\ UNCHANGED <<authVars, projectVars, embeddingVars>>
  /\ UNCHANGED <<wsVars, poVars, chatVars>>

\* the response of checkEmbeddingStatus's GET arrives
EmbeddingResponse(r, outcome, report) ==
  /\ BagIn(r, requests)
  /\ r.kind = "embedding"
  /\ requests' = requests (-) SetToBag({r})
  /\ IF outcome = "ok" /\ r.live
     THEN /\ embeddingStatus' = report.embedding_status
          /\ dashEmbeddingProcessing' = report.is_processing
     ELSE UNCHANGED <<embeddingStatus, dashEmbeddingProcessing>>
  /\ UNCHANGED <<bannerStatus, bannerIsProcessing, bannerError, intervals>>
  /\ UNCHANGED <<authVars, projectVars>>
  /\ UNCHANGED <<wsVars, poVars, chatVars>>

\* the response of the banner's fetchStatus arrives; a change of isProcessing
\* re-runs the banner's interval effect (cleanup, then body)
BannerResponse(r, outcome, report) ==
  /\ BagIn(r, requests)
  /\ r.kind = "banner"
  /\ requests' = requests (-) SetToBag({r})
  /\ IF ~r.live
     THEN UNCHANGED embeddingVars
     ELSE IF outcome = "ok"
     THEN /\ bannerStatus' = report.embedding_status
          /\ bannerIsProcessing' = report.is_processing
          /\ dashEmbeddingProcessing' = report.is_processing
          /\ bannerError' = "null"
          /\ intervals' =
               (intervals \ {Interval("banner", dashSelectedProject)})
               \cup (IF report.is_processing
                     THEN {Interval("banner", dashSelectedProject)} ELSE {})
          /\ UNCHANGED embeddingStatus
     ELSE /\ bannerError' = "error"
          /\ UNCHANGED <<bannerStatus, bannerIsProcessing,
                         dashEmbeddingProcessing, embeddingStatus, intervals>>
  /\ UNCHANGED <<authVars, projectVars>>
  /\ UNCHANGED <<wsVars, poVars, chatVars>>

\* the input of the "Project Name" field: empty, blank, or a name
ProjectNames == {"", " ", "n"}

\* is a create call of the mounted page in flight (isCreatingProject)
IsCreatingProject ==
  \E r \in DOMAIN requests : r.kind = "create" /\ r.live

NoSubmit == [register |-> "none", create |-> "none", logout |-> "none",
             delete |-> "none"]

\* handleCreateProject up to its await, with newProjectName = name
HandleCreateProject(name) ==
  /\ dashboard = "mounted"
  /\ ~IsCreatingProject
  /\ NewProject \notin Elements(projects)
  /\ IF Trim(name) = ""
     THEN /\ lastSubmit' = [lastSubmit EXCEPT !.create = "empty"]
          /\ UNCHANGED requests
     ELSE /\ RequestRoom(1)
          /\ lastSubmit' = [lastSubmit EXCEPT !.create = "sent"]
          /\ requests' = requests (+) SetToBag({Request("create", NewProject,
                                                dashSelectedProject, projects)})
  /\ UNCHANGED <<route, token_type, projectVars, embeddingVars>>
  /\ UNCHANGED <<wsVars, poVars, chatVars>>

\* the response of POST /projects/ arrives:
\* setProjects([transformedProject, ...projects]) with the projects of the
\* render that made the call, then setSelectedProject(transformedProject)
CreateResponse(r, outcome) ==
  /\ BagIn(r, requests)
  /\ r.kind = "create"
  /\ IF outcome = "ok" /\ r.live
     THEN /\ RequestRoom(1)
          /\ projects' = <<r.project>> \o r.list
          /\ dashSelectedProject' = r.project
          /\ IF dashSelectedProject # r.project
             THEN SelectionEffects(dashSelectedProject, r.project,
                                   requests (-) SetToBag({r}))
             ELSE /\ requests' = requests (-) SetToBag({r})
                  /\ UNCHANGED embeddingVars
     ELSE /\ requests' = requests (-) SetToBag({r})
          /\ UNCHANGED <<projects, dashSelectedProject, embeddingVars>>
  /\ UNCHANGED <<authVars, dashboard, user, deleteDialog>>
  /\ UNCHANGED <<wsVars, poVars, chatVars>>

\* the trash button of a project: setDeleteDialog({isOpen: true, project})
OpenDeleteDialog(p) ==
  /\ dashboard = "mounted"
  /\ p \in Elements(projects)
  /\ deleteDialog.project = NoProject
  /\ deleteDialog' = [project |-> p, isDeleting |-> FALSE]
  /\ UNCHANGED <<authVars, dashboard, user, projects, dashSelectedProject,
                 embeddingVars, requests>>
  /\ UNCHANGED <<wsVars, poVars, chatVars>>

\* Cancel, or onOpenChange(false), while no delete is in flight
CancelDelete ==
  /\ dashboard = "mounted"
  /\ deleteDialog.project # NoProject
  /\ ~deleteDialog.isDeleting
  /\ deleteDialog' = NoDialog
  /\ UNCHANGED <<authVars, dashboard, user, projects, dashSelectedProject,
                 embeddingVars, requests>>
  /\ UNCHANGED <<wsVars, poVars, chatVars>>

\* handleDeleteProject up to its await
HandleDeleteProject ==
  /\ dashboard = "mounted"
  /\ deleteDialog.project # NoProject
  /\ ~deleteDialog.isDeleting
  /\ IF access_token
     THEN /\ RequestRoom(1)
          /\ deleteDialog' = [deleteDialog EXCEPT !.isDeleting = TRUE]
          /\ requests' = requests (+) SetToBag({Request("delete", deleteDialog.project,
                                                dashSelectedProject, projects)})
     ELSE UNCHANGED <<deleteDialog, requests>>
  /\ UNCHANGED <<authVars, dashboard, user, projects, dashSelectedProject,
                 embeddingVars>>
  /\ UNCHANGED <<wsVars, poVars, chatVars>>

\* prev.filter(project => project.id !== deleteDialog.project.id)
WithoutProject(list, p) ==
  LET Keep(x) == x # p IN SelectSeq(list, Keep)

\* does the continuation of handleDeleteProject call setSelectedProject(null):
\* `selectedProject?.id === deleteDialog.project.id`, both of the render that
\* made the call
ClearsSelection_Never(r) == FALSE

ClearsSelection(r) == r.selected = r.project

\* the response of DELETE /projects/{id} arrives
DeleteResponse(r, outcome) ==
  /\ BagIn(r, requests)
  /\ r.kind = "delete"
  /\ IF ~r.live
     THEN /\ requests' = requests (-) SetToBag({r})
          /\ UNCHANGED <<projects, dashSelectedProject, deleteDialog, embeddingVars,
                         lastSubmit>>
     ELSE IF outcome = "ok"
     THEN /\ projects' = WithoutProject(projects, r.project)
          /\ deleteDialog' = NoDialog
          /\ lastSubmit' = [lastSubmit EXCEPT !.delete =
                              IF r.project = dashSelectedProject THEN "selected"
                              ELSE "other"]
          /\ IF ClearsSelection(r) /\ dashSelectedProject # NoProject
             THEN /\ dashSelectedProject' = NoProject
                  /\ SelectionEffects(dashSelectedProject, NoProject,
                                      requests (-) SetToBag({r}))
             ELSE /\ requests' = requests (-) SetToBag({r})
                  /\ UNCHANGED <<dashSelectedProject, embeddingVars>>
     ELSE /\ requests' = requests (-) SetToBag({r})
          /\ deleteDialog' = [deleteDialog EXCEPT !.isDeleting = FALSE]
          /\ UNCHANGED <<projects, dashSelectedProject, embeddingVars, lastSubmit>>
  /\ UNCHANGED <<route, token_type, dashboard, user>>
  /\ UNCHANGED <<wsVars, poVars, chatVars>>

(***************************************************************************)
(* LoginPage and handleLogout: the stored token                            *)
(***************************************************************************)

\* the finally block of handleLogout
LogoutFinally_KeepsTokenType(reqs) ==
  /\ access_token' = FALSE
  /\ token_type' = token_type
  /\ route' = "/login"
  /\ DashboardUnmount(reqs)

LogoutFinally(reqs) ==
  /\ access_token' = FALSE
  /\ token_type' = FALSE
  /\ route' = "/login"
  /\ DashboardUnmount(reqs)

\* handleLogout up to its await; without a token the try block ends at once
HandleLogout ==
  /\ dashboard = "mounted"
  /\ IF access_token
     THEN /\ RequestRoom(1)
          /\ requests' = requests (+) SetToBag({Request("logout", NoProject,
                                                         NoProject, <<>>)})
          /\ UNCHANGED <<access_token, token_type, route, lastSubmit,
                         projectVars, embeddingVars>>
     ELSE /\ LogoutFinally(requests)
          /\ lastSubmit' = [lastSubmit EXCEPT !.logout = "no_token"]
  /\ UNCHANGED <<wsState, poVars, chatVars>>

\* POST /auth/logout settles: any status, or a rejected fetch
LogoutResponse(r, outcome) ==
  /\ BagIn(r, requests)
  /\ r.kind = "logout"
  /\ LogoutFinally(requests (-) SetToBag({r}))
  /\ lastSubmit' = [lastSubmit EXCEPT !.logout = outcome]
  /\ UNCHANGED <<wsState, poVars, chatVars>>

\* handleLogin up to its await
HandleLogin ==
  /\ route = "/login"
  /\ RequestRoom(1)
  /\ requests' = requests (+) SetToBag({Request("login", NoProject, NoProject, <<>>)})
  /\ UNCHANGED <<authVars, projectVars, embeddingVars>>
  /\ UNCHANGED <<wsVars, poVars, chatVars>>

\* the response of POST /auth/login arrives (handleLogin stores the
\* access_token only)
LoginResponse(r, outcome) ==
  /\ BagIn(r, requests)
  /\ r.kind = "login"
  /\ requests' = requests (-) SetToBag({r})
  /\ IF outcome = "ok"
     THEN /\ access_token' = TRUE
          /\ route' = "/dashboard"
     ELSE UNCHANGED <<access_token, route>>
  /\ UNCHANGED <<token_type, lastSubmit, projectVars, embeddingVars>>
  /\ UNCHANGED <<wsState, poVars, chatVars>>

\* the passwords typed into the register form, and their lengths
Passwords == {"abc", "secret", "secret2"}
PasswordLength(pw) ==
  CASE pw = "abc" -> 3 [] pw = "secret" -> 6 [] pw = "secret2" -> 7

\* `registerPassword.length < 6`
MinPasswordLength == 6

\* the validation of handleRegister
RegisterValidation_NoMatchCheck(pw, confirm) ==
  IF PasswordLength(pw) < MinPasswordLength THEN "short" ELSE "sent"

RegisterValidation(pw, confirm) ==
  IF pw # confirm THEN "mismatch"
  ELSE IF PasswordLength(pw) < MinPasswordLength THEN "short"
  ELSE "sent"

\* handleRegister up to its await, with registerPassword = pw and
\* registerConfirmPassword = confirm
HandleRegister(pw, confirm) ==
  /\ route = "/login"
  /\ lastSubmit' = [lastSubmit EXCEPT !.register = RegisterValidation(pw, confirm)]
  /\ IF RegisterValidation(pw, confirm) = "sent"
     THEN /\ RequestRoom(1)
          /\ requests' = requests (+) SetToBag({Request("register", NoProject,
                                                         NoProject, <<>>)})
     ELSE UNCHANGED requests
  /\ UNCHANGED <<route, token_type, projectVars, embeddingVars>>
  /\ UNCHANGED <<wsVars, poVars, chatVars>>

\* the response of POST /auth/register arrives; on success handleRegister
\* goes on to POST /auth/login
RegisterResponse(r, outcome) ==
  /\ BagIn(r, requests)
  /\ r.kind = "register"
  /\ requests' =
       IF outcome = "ok"
       THEN (requests (-) SetToBag({r}))
            (+) SetToBag({Request("autologin", NoProject, NoProject, <<>>)})
       ELSE requests (-) SetToBag({r})
  /\ UNCHANGED <<authVars, projectVars, embeddingVars>>
  /\ UNCHANGED <<wsVars, poVars, chatVars>>

\* the response of handleRegister's POST /auth/login arrives
AutoLoginResponse(r, outcome) ==
  /\ BagIn(r, requests)
  /\ r.kind = "autologin"
  /\ requests' = requests (-) SetToBag({r})
  /\ IF outcome = "ok"
     THEN /\ access_token' = TRUE
          /\ token_type' = TRUE
          /\ route' = "/dashboard"
     ELSE UNCHANGED <<access_token, token_type, route>>
  /\ UNCHANGED <<lastSubmit, projectVars, embeddingVars>>
  /\ UNCHANGED <<wsState, poVars, chatVars>>

----------------------------------------------------------------------------
InitClient ==
  /\ sidebar = "new"
  /\ selectedProject = NoProject
  /\ access_token \in BOOLEAN
  /\ wsConnection = Null
  /\ isConnected = FALSE
  /\ connectionRetries = 0
  /\ effectWs = Null
  /\ sockets = <<>>
  /\ reconnectTimers = EmptyBag
  /\ selectedDate = "today"
  /\ todayPOs = <<>>
  /\ selectedDatePOs = <<>>
  /\ todayFilter = "all"
  /\ selectedDateFilter = "all"
  /\ isLoading = FALSE
  /\ workflowStatus = "null"
  /\ lastWorkflowError = "null"
  /\ wsLog = NoPayload
  /\ fetches = EmptyBag
  /\ refetchTimers = EmptyBag
  /\ pollDeps = NeverRan
  /\ pollInterval = NoInterval
  /\ pollLog = "none"
  /\ chat = "new"
  /\ chatProject = NoProject
  /\ currentConversationId = NoConv
  /\ isEmbeddingProcessing = FALSE
  /\ messages = <<>>
  /\ message = ""
  /\ isTyping = FALSE
  /\ error = "null"
  /\ queries = EmptyBag
  /\ loads = EmptyBag
  /\ submitTimers = EmptyBag
  /\ downloadProject = NoProject
  /\ documents = InitialDocuments
  /\ generationTimers = {}
  /\ clock = Len(InitialDocuments)
  /\ downloadLog = [removed |-> {}, late |-> {}]
  /\ route = "/dashboard"
  /\ token_type = access_token
  /\ lastSubmit = NoSubmit
  /\ dashboard = "new"
  /\ user = FALSE
  /\ projects = <<>>
  /\ dashSelectedProject = NoProject
  /\ deleteDialog = NoDialog
  /\ dashEmbeddingProcessing = FALSE
  /\ embeddingStatus = NoStatus
  /\ bannerStatus = NoStatus
  /\ bannerIsProcessing = FALSE
  /\ bannerError = "null"
  /\ intervals = {}
  /\ requests = EmptyBag
  /\ lastLoad = NoLoad

Init ==
  /\ InitClient
  /\ serverMessages \in AllHistories

InitLoad ==
  /\ InitClient
  /\ access_token
  /\ serverMessages \in RichHistories

NextWS ==
  \/ \E p \in ProjectOrNone : Mount(p)
  \/ \E p \in ProjectOrNone : SelectProject(p)
  \/ Unmount
  \/ \E i \in SocketIds : WsOpen(i)
  \/ \E i \in SocketIds : WsClose(i)
  \/ \E t \in TimerClosures : ReconnectTimer(t)

SpecWS == Init /\ [][NextWS]_vars

NextPO ==
  \/ \E p \in {"A", NoProject} : Mount(p)
  \/ \E i \in SocketIds : WsOpen(i)
  \/ \E i \in SocketIds, d \in StatusPayloads : OnMessage(i, d)
  \/ PollEffect
  \/ \E r \in FetchClosures, o \in FetchOutcomes :
       \E pos \in (IF o = "ok" THEN FetchResults(r.date) ELSE {<<>>}) :
          FetchResponse(r, o, pos)
  \/ \E d \in Dates : SetSelectedDate(d)
  \/ \E f \in FilterTypes : SetTodayFilter(f)
  \/ \E f \in FilterTypes : SetSelectedDateFilter(f)

SpecPO == Init /\ [][NextPO]_vars

\* The sidebar of one project: the channel's messages and the polling fallback
NextPoll ==
  \/ Mount("A")
  \/ \E i \in SocketIds : WsOpen(i)
  \/ \E i \in SocketIds : WsClose(i)
  \/ \E t \in TimerClosures : ReconnectTimer(t)
  \/ \E i \in SocketIds, d \in WorkflowPayloads \cup {GarbagePayload} :
        OnMessage(i, d)
  \/ \E t \in RefetchClosures : RefetchTimer(t)
  \/ PollEffect
  \/ PollTick
  \/ \E r \in FetchClosures, o \in {"ok", "not_ok"} :
        FetchResponse(r, o, <<PO("PO-1", "rejected", "V1")>>)

SpecPoll == Init /\ [][NextPoll]_vars

NextChat ==
  \/ \E c \in ConvOrNone, p \in {"A", NoProject}, emb \in BOOLEAN : ChatMount(c, p, emb)
  \/ \E c \in ConvOrNone : SelectConversation(c)
  \/ \E p \in {"A", NoProject} : ChatSelectProject(p)
  \/ \E emb \in BOOLEAN : SetEmbeddingProcessing(emb)
  \/ \E l \in LoadClosures, o \in LoadOutcomes, h \in AllHistories :
        LoadResponse(l, o, h)
  \/ \E text \in Inputs : TypeMessage(text)
  \/ SendMessage
  \/ \E q \in QueryClosures, o \in QueryOutcomes : QueryResponse(q, o)

SpecChat == Init /\ [][NextChat]_vars

\* The chat with its suggestion, chart and follow-up buttons
NextClick ==
  \/ ChatMount(NoConv, "A", FALSE)
  \/ \E text \in {"", "q"} : TypeMessage(text)
  \/ SendMessage
  \/ \E q \in QueryClosures, o \in {"ok", "network_error"} : QueryResponse(q, o)
  \/ \E text \in ClickTexts : SuggestionClick(text)
  \/ \E t \in SubmitClosures : SubmitTimer(t)

SpecClick == Init /\ [][NextClick]_vars

\* The download page
NextDownload ==
  \/ \E p \in ProjectOrNone : DownloadSelectProject(p)
  \/ GenerateNewDocument
  \/ \E id \in DocumentIds : GenerationTimer(id)
  \/ \E id \in DocumentIds : HandleDelete(id)

SpecDownload == Init /\ [][NextDownload]_vars

\* The chat loading stored histories of one conversation
NextLoad ==
  \/ \E p \in {"A", NoProject} : ChatMount("cA", p, FALSE)
  \/ \E l \in LoadClosures, o \in LoadOutcomes : LoadResponse(l, o, serverMessages)

SpecLoad == InitLoad /\ [][NextLoad]_vars

NextDash ==
  \/ DashboardMount
  \/ \E r \in DOMAIN requests, o \in RestOutcomes : MeResponse(r, o)
  \/ \E r \in DOMAIN requests, o \in RestOutcomes : ProjectsResponse(r, o)
  \/ \E p \in DashProjects : SelectProjectClick(p)
  \/ \E t \in intervals : Tick(t)
  \/ \E r \in DOMAIN requests, o \in RestOutcomes, s \in ServerReports :
        EmbeddingResponse(r, o, s)
  \/ \E r \in DOMAIN requests, o \in RestOutcomes, s \in ServerReports :
        BannerResponse(r, o, s)
  \/ \E name \in ProjectNames : HandleCreateProject(name)
  \/ \E r \in DOMAIN requests, o \in RestOutcomes : CreateResponse(r, o)
  \/ \E p \in DashProjects : OpenDeleteDialog(p)
  \/ CancelDelete
  \/ HandleDeleteProject
  \/ \E r \in DOMAIN requests, o \in RestOutcomes : DeleteResponse(r, o)

SpecDash == Init /\ [][NextDash]_vars

NextAuth ==
  \/ DashboardMount
  \/ \E r \in DOMAIN requests, o \in RestOutcomes : MeResponse(r, o)
  \/ \E r \in DOMAIN requests, o \in RestOutcomes : ProjectsResponse(r, o)
  \/ \E name \in ProjectNames : HandleCreateProject(name)
  \/ \E r \in DOMAIN requests, o \in RestOutcomes : CreateResponse(r, o)
  \/ HandleLogout
  \/ \E r \in DOMAIN requests, o \in RestOutcomes : LogoutResponse(r, o)
  \/ HandleLogin
  \/ \E r \in DOMAIN requests, o \in RestOutcomes : LoginResponse(r, o)
  \/ \E pw \in Passwords, confirm \in Passwords : HandleRegister(pw, confirm)
  \/ \E r \in DOMAIN requests, o \in RestOutcomes : RegisterResponse(r, o)
  \/ \E r \in DOMAIN requests, o \in RestOutcomes : AutoLoginResponse(r, o)

SpecAuth == Init /\ [][NextAuth]_vars

----------------------------------------------------------------------------
(***************************************************************************)
(* Claims about the WebSocket channel                                      *)
(***************************************************************************)

OpenSockets == {i \in DOMAIN sockets : sockets[i].state = "open"}

\* C1: while a project stays selected and no open succeeds, the number of
\* reconnect attempts (the retry counter, incremented once per attempt and
\* reset only by a successful open) never exceeds 5.
C1_RetriesNeverExceedFive ==
  sidebar = "mounted" => connectionRetries <= MaxRetries

\* C20: when the socket of a mounted sidebar with a selected project closes
\* while the retry counter is k < 5 (k closes since the last successful
\* open), a reconnect is scheduled with the delay min(1000 * 2^k, 30000) ms;
\* and every reconnect attempt increments the counter by exactly one.
C20_BackoffDoublesPerRetry ==
  [][/\ \A i \in DOMAIN sockets :
          (/\ sidebar = "mounted"
           /\ sockets[i].project = selectedProject
           /\ connectionRetries < MaxRetries
           /\ DOMAIN sockets = {i}
           /\ reconnectTimers = EmptyBag
           /\ WsClose(i))
            => \E t \in TimerClosures :
                 /\ reconnectTimers' = SetToBag({t})
                 /\ t.delay = BackoffDelay(connectionRetries)
     /\ \A t \in TimerClosures :
          (sidebar = "mounted" /\ ReconnectTimer(t))
            => connectionRetries' = connectionRetries + 1]_vars

\* C21: handling an open event sets the retry counter to 0 and marks the
\* channel connected; and when the opened socket of the selected project
\* closes later, the reconnect is scheduled as the first of a new series
\* (delay 1000 ms, computed from a retry count of 0).
C21_OpenResetsRetries ==
  [][\A i \in DOMAIN sockets :
       /\ (sidebar = "mounted" /\ WsOpen(i))
            => (connectionRetries' = 0 /\ isConnected')
       /\ (/\ sidebar = "mounted"
           /\ sockets[i].state = "open"
           /\ sockets[i].project = selectedProject
           /\ connectionRetries = 0
           /\ WsClose(i))
            => \E t \in TimerClosures :
                 /\ CopiesIn(t, reconnectTimers') = CopiesIn(t, reconnectTimers) + 1
                 /\ t.retries = 0
                 /\ t.delay = BackoffDelay(0)]_vars

\* C25: isConnected tells whether a socket of the selected project is open.
\* The close event of another socket does not clear the flag while a socket
\* of the selected project is open, and the flag is not set while no socket
\* is open (or still closing, its close event not yet delivered).
C25_ConnectedIffSocketOpen ==
  [][/\ \A i \in DOMAIN sockets :
          (/\ sidebar = "mounted"
           /\ isConnected
           /\ \E j \in DOMAIN sockets \ {i} :
                /\ sockets[j].state = "open"
                /\ sockets[j].project = selectedProject
           /\ WsClose(i))
            => isConnected'
     /\ (sidebar' = "mounted" /\ isConnected')
          => \E j \in DOMAIN sockets' : sockets'[j].state \in {"open", "closing"}]_vars

\* C4: at any time at most one WebSocket opened by the sidebar is open.
C4_AtMostOneOpenSocket ==
  Cardinality(OpenSockets) <= 1

\* C5: once no project is selected, or the sidebar is unmounted, no step
\* creates a new WebSocket.
C5_NoSocketAfterDeselect ==
  [][(selectedProject' = NoProject \/ sidebar' = "unmounted")
       => DOMAIN sockets' \subseteq DOMAIN sockets]_vars

----------------------------------------------------------------------------
(***************************************************************************)
(* Claims about the chat message list                                      *)
(***************************************************************************)

IsPrefix(s, t) == Len(s) <= Len(t) /\ \A i \in 1..Len(s) : s[i] = t[i]

\* the Messages handleSendMessage creates (ids taken from Date.now())
IsLocal(m) == m.id = "local"

\* C2: the response of a /chat/query call sent while conversation A was
\* current is not appended to the list when it arrives after the switch to
\* another conversation B.
C2_StaleResponseNotAppended ==
  [][\A q \in QueryClosures, o \in QueryOutcomes :
       (/\ QueryResponse(q, o)
        /\ q.conv \in Conversations
        /\ currentConversationId \in Conversations
        /\ q.conv # currentConversationId)
         => messages' = messages]_vars

\* C3: an accepted submit appends the user Message and clears the input
\* before the call resolves (and appends nothing else while a call is in
\* flight); when a call settles, whatever the outcome, exactly one AI Message
\* is appended, and it is the error Message when the call failed.  Without a
\* token no call is made and the one AI Message is the error Message.
C3_OneUserThenOneAiMessage ==
  [][/\ SendMessage =>
          /\ message' = ""
          /\ IsPrefix(messages, messages')
          /\ messages'[Len(messages) + 1].sender = "user"
          /\ messages'[Len(messages) + 1].intent = Trim(message)
          /\ IF BagCardinality(queries') > BagCardinality(queries)
             THEN Len(messages') = Len(messages) + 1
             ELSE /\ Len(messages') = Len(messages) + 2
                  /\ messages'[Len(messages) + 2].sender = "ai"
                  /\ messages'[Len(messages) + 2].intent = "error"
     /\ BagCardinality(queries') < BagCardinality(queries) =>
          /\ BagCardinality(queries') = BagCardinality(queries) - 1
          /\ IsPrefix(messages, messages')
          /\ Len(messages') = Len(messages) + 1
          /\ messages'[Len(messages')].sender = "ai"
     /\ \A q \in QueryClosures :
          QueryResponse(q, "unauthorized") \/ QueryResponse(q, "error_status")
            \/ QueryResponse(q, "network_error")
          => messages'[Len(messages')].intent = "error"]_vars

\* a call made with a token has failed and its error Message follows the
\* user Message it answers
C3_Witness ==
  /\ access_token
  /\ message = ""
  /\ ~isTyping
  /\ \E i \in 1..Len(messages) - 1 :
       /\ messages[i].sender = "user"
       /\ messages[i + 1].sender = "ai"
       /\ messages[i + 1].intent = "error"

\* C6: the list never holds Messages of two different conversations.
C6_OneConversationInList ==
  \A i, j \in 1..Len(messages) :
    (messages[i].conv \in Conversations /\ messages[j].conv \in Conversations)
      => messages[i].conv = messages[j].conv

\* C7: while the conversation and the project stay the same the list is
\* append-only: no step removes or reorders Messages (stated for the Messages
\* appended by the user's submits and by the calls that answer them).
C7_AppendOnly ==
  [][(chat = "mounted" /\ currentConversationId' = currentConversationId
        /\ chatProject' = chatProject)
       => IsPrefix(SelectSeq(messages, IsLocal),
                   SelectSeq(messages', IsLocal))]_vars

----------------------------------------------------------------------------
(***************************************************************************)
(* Claims about the purchase-order lists                                   *)
(***************************************************************************)

HasNumber(list, p) == \E k \in 1..Len(list) : list[k].po_number = p

IsStatusUpdate(d) ==
  d.type = "po_status_update" /\ d.po_number # Missing /\ d.status # Missing

\* C8: a po_status_update whose po_number is in neither list leaves both
\* lists as they are.
C8_AbsentNumberIsNoOp ==
  [][\A i \in DOMAIN sockets, d \in StatusPayloads :
       (/\ d.type = "po_status_update"
        /\ ~HasNumber(todayPOs, d.po_number)
        /\ ~HasNumber(selectedDatePOs, d.po_number)
        /\ OnMessage(i, d))
         => /\ todayPOs' = todayPOs
            /\ selectedDatePOs' = selectedDatePOs]_vars

\* an update for a number the lists do not hold has been handled while both
\* lists hold entries
C8_Witness ==
  /\ wsLog = Payload("po_status_update", "PO-9", "approved")
  /\ todayPOs # <<>>
  /\ selectedDatePOs # <<>>
  /\ ~HasNumber(todayPOs, "PO-9")
  /\ ~HasNumber(selectedDatePOs, "PO-9")

\* the entry at every position keeps its number and its other fields, and
\* takes status s exactly when its number is p
UpdatedInPlace(old, new, p, s) ==
  /\ Len(new) = Len(old)
  /\ \A k \in 1..Len(old) :
       /\ new[k].po_number = old[k].po_number
       /\ new[k].vendor_name = old[k].vendor_name
       /\ new[k].status = IF old[k].po_number = p THEN s ELSE old[k].status

\* C9: a po_status_update (p, s) sets the status of every entry with number p
\* in both lists, changes no other entry, keeps the length and the order of
\* both lists, and appends no chat Message.
C9_KeyedInPlaceUpdate ==
  [][\A i \in SocketIds, d \in WsPayloads :
       (IsStatusUpdate(d) /\ OnMessage(i, d))
         => /\ UpdatedInPlace(todayPOs, todayPOs', d.po_number, d.status)
            /\ UpdatedInPlace(selectedDatePOs, selectedDatePOs',
                              d.po_number, d.status)
            /\ messages' = messages]_vars

UpdateNumbers == {"PO-1", "PO-2", "PO-9"}
UpdateStatuses == {"generated", "pending_approval", "approved", "rejected",
                   "sent_to_vendor"}

\* the list after a po_status_update (p, s) has been handled and rendered
AfterUpdate(list, filter, p, s) == RenderPOs(UpdateStatus(list, p, s), filter)

\* C10: handling the same po_status_update twice yields the lists that
\* handling it once yields.
C10_UpdateIdempotent ==
  \A p \in UpdateNumbers, s \in UpdateStatuses :
    /\ AfterUpdate(AfterUpdate(todayPOs, todayFilter, p, s), todayFilter, p, s)
         = AfterUpdate(todayPOs, todayFilter, p, s)
    /\ AfterUpdate(AfterUpdate(selectedDatePOs, selectedDateFilter, p, s),
                   selectedDateFilter, p, s)
         = AfterUpdate(selectedDatePOs, selectedDateFilter, p, s)

\* an update has changed an entry of each list, next to an entry it left alone
C10_Witness ==
  /\ wsLog = Payload("po_status_update", "PO-1", "pending_approval")
  /\ \E k \in 1..Len(todayPOs) : todayPOs[k] = PO("PO-1", "pending_approval", "V1")
  /\ \E k \in 1..Len(todayPOs) : todayPOs[k].po_number = "PO-2"
  /\ \E k \in 1..Len(selectedDatePOs) :
       selectedDatePOs[k] = PO("PO-1", "pending_approval", "V1")

----------------------------------------------------------------------------
(***************************************************************************)
(* Claims about the dashboard: polling, projects, the stored token         *)
(***************************************************************************)

\* the interval timers that poll for one concern
ActiveTimers(concern) ==
  IF concern = "embedding" THEN intervals
  ELSE IF pollInterval = NoInterval THEN {} ELSE {pollInterval}

\* C11: for each polling concern (embedding status, PO fallback) at most one
\* interval timer is active at any time, and an active timer polls for the
\* project that is selected.
C11_OneTimerPerConcern ==
  /\ \A concern \in {"embedding", "po"} : Cardinality(ActiveTimers(concern)) <= 1
  /\ \A t \in intervals : t.project = dashSelectedProject
  /\ pollInterval # NoInterval => pollInterval.project = selectedProject

\* a REST call of the login page or the dashboard settles with outcome o
RestResponse(r, o) ==
  \/ MeResponse(r, o)
  \/ ProjectsResponse(r, o)
  \/ \E s \in ServerReports : EmbeddingResponse(r, o, s)
  \/ \E s \in ServerReports : BannerResponse(r, o, s)
  \/ CreateResponse(r, o)
  \/ DeleteResponse(r, o)
  \/ LogoutResponse(r, o)
  \/ LoginResponse(r, o)
  \/ RegisterResponse(r, o)
  \/ AutoLoginResponse(r, o)

LoggedOut == ~access_token /\ ~token_type /\ route = "/login"

\* C12: every REST call that receives HTTP 401 clears the stored token and
\* redirects to the login page, and the call is not made again.
C12_UnauthorizedLogsOut ==
  [][/\ \A r \in DOMAIN requests :
          RestResponse(r, "unauthorized")
            => /\ LoggedOut'
               /\ BagCardinality(requests') < BagCardinality(requests)
     /\ \A q \in QueryClosures :
          QueryResponse(q, "unauthorized")
            => /\ LoggedOut'
               /\ BagCardinality(queries') < BagCardinality(queries)]_vars

\* handleLogout runs to its end: without a token at once, otherwise when
\* POST /auth/logout settles
LogoutCompletes ==
  \/ HandleLogout /\ ~access_token
  \/ \E r \in DOMAIN requests, o \in RestOutcomes : LogoutResponse(r, o)

\* C13: after handleLogout completes, access_token and token_type are both
\* absent from local storage, whether /auth/logout succeeded, returned an
\* error status or threw.
C13_LogoutClearsTokens ==
  [][LogoutCompletes => ~access_token' /\ ~token_type']_vars

\* a logout whose request threw has completed, and a logout whose request
\* succeeded or was refused would end in the same storage
C13_Witness ==
  /\ lastSubmit.logout = "throws"
  /\ ~access_token
  /\ ~token_type
  /\ route = "/login"

\* s is t with some entries left out
IsSubSeq(s1, s2) ==
  \E f \in [1..Len(s1) -> 1..Len(s2)] :
    /\ \A i \in 1..Len(s1) : s1[i] = s2[f[i]]
    /\ \A i, j \in 1..Len(s1) : i < j => f[i] < f[j]

\* DELETE succeeds for the project that is selected when the response arrives
DeletesSelected(r) ==
  /\ r.live
  /\ r.project = dashSelectedProject
  /\ DeleteResponse(r, "ok")

C15_InvalidInputSendsNothing ==
  [][/\ \A pw \in Passwords, confirm \in Passwords :
          (pw # confirm /\ HandleRegister(pw, confirm)) => requests' = requests
     /\ \A name \in ProjectNames :
          (Trim(name) = "" /\ HandleCreateProject(name)) => requests' = requests]_vars

\* a register form with differing passwords and a create dialog with a blank
\* name have both been submitted, and no call of either is in flight
C15_Witness ==
  /\ lastSubmit.register = "mismatch"
  /\ lastSubmit.create = "empty"
  /\ \A r \in DOMAIN requests : r.kind \notin {"register", "autologin", "create"}
\* the report of a project whose ten documents are all embedded
DoneReport == [embedding_status |-> StatusDone, is_processing |-> FALSE]

\* C19: when a call made for the selected project reports total = 10,
\* completed = 10 and nothing failed, pending or processing, then
\* isEmbeddingProcessing is false and the banner renders nothing.
C19_DoneStatusHidesBanner ==
  [][\A r \in DOMAIN requests :
       (/\ r.live
        /\ r.project = dashSelectedProject
        /\ \/ EmbeddingResponse(r, "ok", DoneReport)
           \/ BannerResponse(r, "ok", DoneReport))
         => /\ ~dashEmbeddingProcessing'
            /\ ~BannerRenders(dashSelectedProject', bannerStatus',
                              bannerIsProcessing', bannerError')]_vars

\* C22: a WebSocket message whose text is not JSON is dropped: the socket
\* stays open, isConnected keeps its value, and workflowStatus,
\* lastWorkflowError, todayPOs and selectedDatePOs are unchanged.
C22_UnparseableMessageDropped ==
  [][\A i \in DOMAIN sockets :
       OnMessage(i, GarbagePayload) =>
         /\ sockets' = sockets
         /\ sockets'[i].state = "open"
         /\ isConnected' = isConnected
         /\ wsConnection' = wsConnection
         /\ workflowStatus' = workflowStatus
         /\ lastWorkflowError' = lastWorkflowError
         /\ todayPOs' = todayPOs
         /\ selectedDatePOs' = selectedDatePOs]_vars

\* a text that is not JSON was the last message handled, on an open and
\* connected channel, while a workflow status and a list were displayed
C22_Witness ==
  /\ wsLog = GarbagePayload
  /\ ~JSONParse(EventData(wsLog)).ok
  /\ isConnected
  /\ \E i \in DOMAIN sockets : sockets[i].state = "open"
  /\ workflowStatus = "message"
  /\ todayPOs # <<>>

\* C23 as stated: a tick of the 15 s interval issues PO fetches if and only
\* if isConnected is false at that tick.
C23_TickFetchesIffDisconnected ==
  [][PollTick => ((fetches' # fetches) <=> ~isConnected)]_vars

\* C23 amended: a tick issues PO fetches if and only if isConnected was false
\* in the render whose effect started the interval; once the polling effect
\* has run for the current isConnected, that is the current flag.
C23_TickFetchesIffIntervalDisconnected ==
  [][PollTick =>
       /\ (fetches' # fetches) <=> ~pollInterval.isConnected
       /\ pollDeps = CurrentPollDeps => pollInterval.isConnected = isConnected]_vars

\* the last tick ran in the interval of the current render, found the
\* channel disconnected and issued a fetch
C23_Witness ==
  /\ pollLog = "fetched"
  /\ pollDeps = CurrentPollDeps
  /\ ~pollInterval.isConnected
  /\ ~isConnected
  /\ fetches # EmptyBag

\* C26: the response of a fetch started for another project than the
\* selected one, or (for the selected date's list) for another date than the
\* selected one, is not applied to the lists.
C26_StaleFetchNotApplied ==
  [][\A r \in FetchClosures, o \in FetchOutcomes :
       \A pos \in (IF o = "ok" THEN FetchResults(r.date) ELSE {<<>>}) :
         (/\ r.project # selectedProject \/ (r.kind = "date" /\ r.date # selectedDate)
          /\ FetchResponse(r, o, pos))
           => /\ todayPOs' = todayPOs
              /\ selectedDatePOs' = selectedDatePOs]_vars

\* the order of the comment in the comparator: pending, rejected,
\* sent_to_vendor (with approved, which the sidebar counts as sent), others
StatedRank(status) ==
  CASE status = "pending_approval" -> 0
    [] status = "rejected" -> 1
    [] status \in {"sent_to_vendor", "approved"} -> 2
    [] OTHER -> 3

InStatedOrder(list) ==
  \A i, j \in 1..Len(list) :
    i < j => StatedRank(list[i].status) <= StatedRank(list[j].status)

\* C24: in both displayed lists no order with a later-priority status comes
\* before an order with an earlier-priority status (pending, then rejected,
\* then sent_to_vendor, then the others).
C24_DisplayedInPriorityOrder ==
  InStatedOrder(sortedTodayPOs) /\ InStatedOrder(sortedSelectedDatePOs)

----------------------------------------------------------------------------
(***************************************************************************)
(* Claims about submitting from the chat                                   *)
(***************************************************************************)
\* C27: at most one /chat/query request is in flight at any time; a submit
\* made while a request is pending, from the form or from the delayed submit
\* of a clicked suggestion, chart choice or follow-up, is ignored.
C27_AtMostOneQueryInFlight ==
  /\ BagCardinality(queries) <= 1
  /\ queries # EmptyBag => isTyping

\* C28: when the delayed submit of a click made with a project selected and
\* no request pending runs, it appends exactly one user Message, and the
\* content of that Message is the clicked text.
C28_ClickSubmitsClickedText ==
  [][\A t \in SubmitClosures :
       (~t.isTyping /\ t.project # NoProject /\ access_token /\ SubmitTimer(t))
         => messages' = Append(messages, UserMessage(t.clicked, t.conv))]_vars

(***************************************************************************)
(* Claims about the embedding status of the dashboard                      *)
(***************************************************************************)
\* C29: a response of checkEmbeddingStatus that was requested for a project
\* other than the one selected when it arrives changes neither
\* embeddingStatus nor isEmbeddingProcessing, and isEmbeddingProcessing is
\* false whenever no project is selected.
C29_StaleEmbeddingStatusNotApplied ==
  [][/\ \A r \in DOMAIN requests, o \in RestOutcomes, s \in ServerReports :
          (r.project # dashSelectedProject /\ EmbeddingResponse(r, o, s))
            => UNCHANGED <<embeddingStatus, dashEmbeddingProcessing>>
     /\ dashSelectedProject' = NoProject => ~dashEmbeddingProcessing']_vars

(***************************************************************************)
(* Claims about the generated documents                                    *)
(***************************************************************************)
\* C30: a document removed by handleDelete is never in the list again, also
\* when the 3 s timer of its generation fires after the removal.
C30_DeletedNeverReappears ==
  \A id \in downloadLog.removed : ~HasDocument(documents, id)

\* a document was removed while it was generating, and its timer has fired
C30_Witness ==
  \E id \in downloadLog.late : ~HasDocument(documents, id)

(***************************************************************************)
(* Claims about loading a stored conversation                              *)
(***************************************************************************)

\* two Messages with the same fields (how the record was stored set aside)
SameMessage(a, b) == [a EXCEPT !.stored = NoStored] = [b EXCEPT !.stored = NoStored]

\* C16: a record whose metadata is stored as the JSON text of a value loads
\* as the same Message as the record holding that value itself.
C16_MetadataTextLoadsAsObject ==
  [][\A l \in LoadClosures :
       LoadResponse(l, "ok", serverMessages) =>
         \A k \in DOMAIN serverMessages, v \in MetadataValues :
           serverMessages[k].metadata = JText(Stringify(v)) =>
             SameMessage(messages'[k],
                         FormatMessage([serverMessages[k] EXCEPT !.metadata = v],
                                       l.conv))]_vars

\* a loaded Message whose chart and follow-up suggestions came out of
\* metadata stored as text, next to one whose chart suggestions did
C16_Witness ==
  /\ Len(messages) = 2
  /\ messages[1].stored.metadata = "text"
  /\ messages[1].chart = JStr("bar")
  /\ messages[1].followup_suggestions = JArr(<<"f1">>)
  /\ messages[2].stored.metadata = "text"
  /\ messages[2].chart_suggestions = JArr(<<"line">>)
  /\ messages[2].suggestion = JArr(<<"q1">>)
  /\ messages[2].requires_chart_selection

\* C17: a response whose records hold query_result or metadata texts that do
\* not parse still sets the list to one Message per record, in the order of
\* the records; the Message of such a record has a null queryResult (and no
\* sample_data), respectively the fields an empty metadata object gives.
C17_UnparseableFieldsLoadEmpty ==
  [][\A l \in LoadClosures :
       LoadResponse(l, "ok", serverMessages) =>
         /\ Len(messages') = Len(serverMessages)
         /\ \A k \in DOMAIN serverMessages :
              /\ messages'[k].id = serverMessages[k].id
              /\ Form(serverMessages[k].query_result) = "unparseable" =>
                   /\ messages'[k].queryResult = JNull
                   /\ messages'[k].sample_data = JUndefined
              /\ Form(serverMessages[k].metadata) = "unparseable" =>
                   /\ messages'[k].suggestion = EmptyArray
                   /\ messages'[k].chart = JUndefined
                   /\ messages'[k].chart_suggestions = EmptyArray
                   /\ messages'[k].followup_suggestions = EmptyArray
                   /\ ~messages'[k].requires_chart_selection]_vars

\* a loaded list whose first Message comes from a record with two
\* unparseable fields and whose second from a record that parsed
C17_Witness ==
  /\ Len(messages) = 2
  /\ messages[1].id = "m1"
  /\ messages[1].stored = [query_result |-> "unparseable", metadata |-> "unparseable"]
  /\ messages[1].queryResult = JNull
  /\ messages[2].id = "m2"
  /\ messages[2].stored.query_result = "text"
  /\ messages[2].sample_data = JArr(<<"row">>)

\* C18 as stated: a response with an empty history sets the list to exactly
\* one welcome Message (sender ai), never to the empty list.
C18_EmptyHistoryYieldsWelcome ==
  [][\A l \in LoadClosures :
       LoadResponse(l, "ok_empty", serverMessages) =>
         /\ Len(messages') = 1
         /\ messages'[1].id = "welcome"
         /\ messages'[1].sender = "ai"]_vars

\* C18 amended: a response with an empty history sets the list to exactly
\* one welcome Message (sender ai) when a project was selected in the render
\* that started the load, and to the empty list when none was.
C18_EmptyHistoryWelcomeIfProject ==
  [][\A l \in LoadClosures :
       LoadResponse(l, "ok_empty", serverMessages) =>
         IF l.project # NoProject
         THEN /\ Len(messages') = 1
              /\ messages'[1].id = "welcome"
              /\ messages'[1].sender = "ai"
         ELSE messages' = <<>>]_vars

\* the last response had an empty history, project A was selected when its
\* load started, and the list is the one welcome Message
C18_Witness ==
  /\ lastLoad = [outcome |-> "ok_empty", project |-> "A"]
  /\ Len(messages) = 1
  /\ messages[1].id = "welcome"
  /\ messages[1].sender = "ai"

====
